---- MODULE Spec2Model ----
(***************************************************************************)
(* A model of the SVG text layout engine of KoSvgTextShape.cpp: the        *)
(* cluster fix-up pass of relayout, the two line engines (breakLines and   *)
(* flowTextInShapes), text-anchor resolution, textLength adjustment and    *)
(* the mapping of characters onto a text path.                             *)
(*                                                                         *)
(* Characters are indexed from 0 as in the source, so the per-character    *)
(* result vector is a function on 0..n-1.  Positions and advances are kept *)
(* on the inline axis only and are integers; where the source halves a     *)
(* value the unit of the model is half a unit of the source.               *)
(***************************************************************************)
EXTENDS Integers, Sequences, FiniteSets, TLC

VARIABLES
    pc,         \* position of the modelled function
    input,      \* the arguments the function was called with
    result,     \* QVector<CharacterResult> result
    lineBoxes,  \* QVector<LineBox> lineBoxes
    eng,        \* the locals of the running function
    ret         \* what the function returned / reported

vars == <<pc, input, result, lineBoxes, eng, ret>>

----------------------------------------------------------------------------
(* Bounds of the model. *)

MaxChars == 3
MaxGlyphs == 3

----------------------------------------------------------------------------
(* Helpers on sequences and integers. *)

Min(a, b) == IF a < b THEN a ELSE b
Max(a, b) == IF a > b THEN a ELSE b
Abs(a) == IF a < 0 THEN -a ELSE a

Range(s) == {s[k] : k \in DOMAIN s}

\* All sequences over S of length 0..n.
SeqsUpTo(S, n) == UNION {[1..k -> S] : k \in 0..n}

RECURSIVE SumSeq(_)
SumSeq(s) == IF s = <<>> THEN 0 ELSE Head(s) + SumSeq(Tail(s))

----------------------------------------------------------------------------
(* struct CharacterResult and its default member initialisers. *)

CharacterResult ==
    [finalPosition     |-> 0,
     hidden            |-> FALSE,
     addressable       |-> TRUE,
     middle            |-> FALSE,
     anchored_chunk    |-> FALSE,
     visualIndex       |-> -1,
     cssPosition       |-> 0,
     advance           |-> 0,
     breakType         |-> "NoBreak",
     lineEnd           |-> "NoChange",
     lineStart         |-> "NoChange",
     justifyBefore     |-> FALSE,
     justifyAfter      |-> FALSE,
     isHanging         |-> FALSE,
     textLengthApplied |-> FALSE,
     overflowWrap      |-> FALSE,
     anchor            |-> "AnchorStart",
     direction         |-> "DirectionLeftToRight"]

\* The classification relayout gives a character from libunibreak's answer
\* (LINEBREAK_MUSTBREAK, LINEBREAK_ALLOWBREAK with a collapsible space,
\* LINEBREAK_ALLOWBREAK, none), hanging-punctuation being unset.
CharKinds ==
    { [breakType |-> "NoBreak",   lineEnd |-> "NoChange", lineStart |-> "NoChange"],
      [breakType |-> "SoftBreak", lineEnd |-> "NoChange", lineStart |-> "NoChange"],
      [breakType |-> "SoftBreak", lineEnd |-> "Collapse", lineStart |-> "Collapse"],
      [breakType |-> "HardBreak", lineEnd |-> "Collapse", lineStart |-> "Collapse"] }

ClassifyCharacter(cr, kind) ==
    [cr EXCEPT !.breakType = kind.breakType,
               !.lineEnd   = kind.lineEnd,
               !.lineStart = kind.lineStart]

----------------------------------------------------------------------------
(* relayout, step 2: the glyph loop and the cluster fix-up pass.           *)

\* One iteration of the loop over raqm's glyphs.  g is the glyph (its cluster,
\* whether FT_Load_Glyph succeeded, its advance), i its index in glyph order.
GlyphIteration(res, l2v, collapseChars, g, i) ==
    LET cluster == g.cluster
        r1 == [res EXCEPT ![cluster].addressable = ~collapseChars[cluster]]
    IN  IF ~r1[cluster].addressable
        THEN [result |-> r1, logicalToVisual |-> l2v]
        ELSE IF ~g.loadOk
        THEN [result |-> r1, logicalToVisual |-> l2v]
        ELSE [result |-> [r1 EXCEPT ![cluster].visualIndex = i,
                                    ![cluster].middle = FALSE,
                                    ![cluster].advance = @ + g.advance],
              logicalToVisual |-> [k \in (DOMAIN l2v) \cup {cluster} |->
                                      IF k = cluster THEN i ELSE l2v[k]]]

\* The body of the fix-up loop without the test that keeps a HardBreak the
\* cluster's first character already carries.
FixUpCharacterOverwritingBreak(st, i) ==
    LET res == st.result
        fc  == st.firstCluster
    IN  IF res[i].addressable /\ res[i].visualIndex # -1
        THEN [result |-> IF st.setAnchoredChunk
                         THEN [res EXCEPT ![i].anchored_chunk = TRUE]
                         ELSE res,
              firstCluster |-> i,
              setAnchoredChunk |-> FALSE]
        ELSE [result |-> [res EXCEPT ![fc].breakType = res[i].breakType,
                                     ![i].middle = TRUE,
                                     ![i].addressable = FALSE],
              firstCluster |-> fc,
              setAnchoredChunk |-> st.setAnchoredChunk \/ res[i].anchored_chunk]

\* The body of the fix-up loop for character i.
FixUpCharacter(st, i) ==
    LET res == st.result
        fc  == st.firstCluster
    IN  IF res[i].addressable /\ res[i].visualIndex # -1
        THEN [result |-> IF st.setAnchoredChunk
                         THEN [res EXCEPT ![i].anchored_chunk = TRUE]
                         ELSE res,
              firstCluster |-> i,
              setAnchoredChunk |-> FALSE]
        ELSE LET r1 == IF res[fc].breakType # "HardBreak"
                       THEN [res EXCEPT ![fc].breakType = res[i].breakType]
                       ELSE res
                 r2 == IF r1[fc].lineStart = "NoChange"
                       THEN [r1 EXCEPT ![fc].lineStart = r1[i].lineStart]
                       ELSE r1
                 r3 == IF r2[fc].lineEnd = "NoChange"
                       THEN [r2 EXCEPT ![fc].lineEnd = r2[i].lineEnd]
                       ELSE r2
             IN  [result |-> [r3 EXCEPT ![i].middle = TRUE,
                                        ![i].addressable = FALSE],
                  firstCluster |-> fc,
                  setAnchoredChunk |-> st.setAnchoredChunk \/ r3[i].anchored_chunk]

RECURSIVE FixUpLoop(_, _, _)
FixUpLoop(st, i, n) ==
    IF i >= n THEN st ELSE FixUpLoop(FixUpCharacter(st, i), i + 1, n)

\* The fix-up pass without "result[i].addressable = false" and without the
\* copying of break information to the cluster's first character.
FixUpClustersKeepAddressable(res, n) ==
    [i \in DOMAIN res |->
        IF res[i].addressable /\ res[i].visualIndex # -1
        THEN res[i] ELSE [res[i] EXCEPT !.middle = TRUE]]

FixUpClusters(res, n) ==
    FixUpLoop([result |-> res, firstCluster |-> 0, setAnchoredChunk |-> FALSE],
              0, n).result

\* result after the per-chunk loop: every character default-constructed, then
\* classified; the very first character is an anchored chunk.
ResultBeforeGlyphs(n, kinds) ==
    [i \in 0..n-1 |->
        [ClassifyCharacter(CharacterResult, kinds[i])
            EXCEPT !.anchored_chunk = (i = 0)]]

\* The inputs of the glyph loop: the text's per-character classification, the
\* whitespace-collapse flags, and the glyphs raqm returned.
InitCluster ==
    /\ pc = "glyphs"
    /\ \E n \in 1..MaxChars :
          \E kinds \in [0..n-1 -> CharKinds], collapseChars \in [0..n-1 -> BOOLEAN],
             glyphs \in SeqsUpTo([cluster : 0..n-1, loadOk : BOOLEAN, advance : {1}],
                                 MaxGlyphs) :
             input = [n |-> n, kinds |-> kinds, collapseChars |-> collapseChars,
                      glyphs |-> glyphs]
    /\ result = ResultBeforeGlyphs(input.n, input.kinds)
    /\ lineBoxes = <<>>
    /\ eng = [i |-> 0, logicalToVisual |-> <<>>]
    /\ ret = "none"

GlyphStep ==
    /\ pc = "glyphs"
    /\ eng.i < Len(input.glyphs)
    /\ LET o == GlyphIteration(result, eng.logicalToVisual, input.collapseChars,
                               input.glyphs[eng.i + 1], eng.i)
       IN  /\ result' = o.result
           /\ eng' = [i |-> eng.i + 1, logicalToVisual |-> o.logicalToVisual]
    /\ UNCHANGED <<pc, input, lineBoxes, ret>>

FixUpStep ==
    /\ pc = "glyphs"
    /\ eng.i = Len(input.glyphs)
    /\ result' = FixUpClusters(result, input.n)
    /\ pc' = "fixedUp"
    /\ UNCHANGED <<input, lineBoxes, eng, ret>>

NextCluster == GlyphStep \/ FixUpStep

SpecCluster == InitCluster /\ [][NextCluster]_vars

\* C10: after the fix-up pass every character is either a cluster leader
\* (addressable, visualIndex set by the shaper, not middle) or a cluster
\* follower (not addressable, middle, visualIndex -1).
IsClusterLeader(cr) == cr.addressable /\ cr.visualIndex # -1 /\ ~cr.middle
IsClusterFollower(cr) == ~cr.addressable /\ cr.middle /\ cr.visualIndex = -1

C10_LeaderOrFollower ==
    pc = "fixedUp" =>
        \A i \in DOMAIN result :
            /\ IsClusterLeader(result[i]) \/ IsClusterFollower(result[i])
            /\ result[i].addressable # result[i].middle
            /\ IsClusterLeader(result[i]) <=> i \in DOMAIN eng.logicalToVisual

\* A text with a leader, a follower whose glyph failed to load and a collapsed
\* character has passed the fix-up.
C10_Witness ==
    /\ pc = "fixedUp"
    /\ \E i, j, k \in DOMAIN result :
        /\ IsClusterLeader(result[i])
        /\ IsClusterFollower(result[j]) /\ ~input.collapseChars[j]
        /\ \E g \in Range(input.glyphs) : g.cluster = j /\ ~g.loadOk
        /\ IsClusterFollower(result[k]) /\ input.collapseChars[k]

----------------------------------------------------------------------------
(* QRectF on the inline axis: the bounding boxes of glyphs, chunks and     *)
(* words.  A rectangle is null (default-constructed) or the interval l..r; *)
(* every glyph has a non-zero height, so a rectangle is empty exactly when *)
(* it is null or has no inline extent.                                     *)

NullRect == [null |-> TRUE, l |-> 0, r |-> 0]
Rect(l, r) == [null |-> FALSE, l |-> l, r |-> r]
RectIsEmpty(b) == b.null \/ b.r - b.l <= 0
RectWidth(b) == IF b.null THEN 0 ELSE b.r - b.l
RectTranslated(b, d) == IF b.null THEN b ELSE Rect(b.l + d, b.r + d)
\* QRectF::operator|
RectUnited(a, b) ==
    IF a.null THEN b
    ELSE IF b.null THEN a
    ELSE Rect(Min(a.l, b.l), Max(a.r, b.r))

\* The glyph box relayout computes: its inline extent is the advance.
GlyphBoundingBox(cr) == Rect(0, cr.advance)

\* fabs(cr.ascent - cr.halfLeading) of a shaped glyph, in lines.
GlyphHeight == 1

\* qRound of a length given in half pixels, in pixels: halves round up.
QRound(x) == (x + 1) \div 2

----------------------------------------------------------------------------
(* struct LineChunk, struct LineBox.                                       *)

LineChunk == [length |-> [p1 |-> 0, p2 |-> 0],
              chunkIndices |-> <<>>,
              boundingBox |-> NullRect]

QLineF(p1, p2) == [p1 |-> p1, p2 |-> p2]
LineLength(line) == Abs(line.p2 - line.p1)

\* LineBox().  actualLineTop is 0 until a glyph gives the line its height;
\* every glyph is one line high.
LineBox ==
    [chunks |-> <<>>, currentChunk |-> -1, actualLineTop |-> 0,
     textIndent |-> 0, firstLine |-> FALSE, lastLine |-> FALSE,
     justifyLine |-> FALSE, lineFinalized |-> FALSE]

\* LineBox(QPointF start, QPointF end)
LineBoxFromTo(start, end) ==
    [LineBox EXCEPT !.chunks = <<[LineChunk EXCEPT !.length = QLineF(start, end)]>>,
                    !.currentChunk = 0]

\* LineBox(QVector<QLineF> lineWidths, bool ltr, QPointF indent), ltr branch.
LineBoxFromWidths(lineWidths, indent) ==
    [LineBox EXCEPT
        !.textIndent = indent,
        !.chunks = [k \in 1..Len(lineWidths) |->
                        [LineChunk EXCEPT !.length = lineWidths[k]]],
        !.currentChunk = IF lineWidths = <<>> THEN -1 ELSE 0]

\* QVector::value(i): the element, or a default-constructed one out of range.
ChunkValue(chunks, i) ==
    IF i >= 0 /\ i < Len(chunks) THEN chunks[i + 1] ELSE LineChunk

\* LineBox::chunk()
CurrentChunkOf(line) == ChunkValue(line.chunks, line.currentChunk)

\* LineBox::setCurrentChunk
SetCurrentChunk(line, chunk) ==
    LET cc == Max(line.currentChunk, 0)
    IN  IF cc < Len(line.chunks)
        THEN [line EXCEPT !.currentChunk = cc, !.chunks[cc + 1] = chunk]
        ELSE [line EXCEPT !.currentChunk = cc, !.chunks = Append(@, chunk)]

\* LineBox::isEmpty
LineIsEmpty(line) ==
    IF line.chunks = <<>> THEN TRUE
    ELSE ChunkValue(line.chunks, line.currentChunk).chunkIndices = <<>>

\* LineBox::clearAndAdjust
ClearAndAdjust(line, indent) ==
    [line EXCEPT
        !.actualLineTop = 0,
        !.textIndent = indent,
        !.chunks = <<[LineChunk EXCEPT
                        !.length = ChunkValue(line.chunks, line.currentChunk).length]>>,
        !.currentChunk = 0,
        !.firstLine = FALSE]

\* LineBox::setCurrentChunkForPos, horizontal branch.
RECURSIVE ChunkForPos(_, _, _, _)
ChunkForPos(chunks, pos, i, dflt) ==
    IF i >= Len(chunks) THEN dflt
    ELSE LET len == chunks[i + 1].length
         IN  IF pos < Max(len.p1, len.p2) /\ pos >= Min(len.p1, len.p2)
             THEN i
             ELSE ChunkForPos(chunks, pos, i + 1, dflt)

SetCurrentChunkForPos(line, pos) ==
    [line EXCEPT !.currentChunk = ChunkForPos(line.chunks, pos, 0, line.currentChunk)]

----------------------------------------------------------------------------
(* addWordToLine.  A line-engine state s holds result, the current line,  *)
(* the pending word and the running position.                              *)

\* The body of addWordToLine's loop for character j of the word.
AddCharacterToLine(a, j, firstOfWord, firstLine, ltr) ==
    LET res == a.result
        startsChunk == RectIsEmpty(a.boundingBox) /\ j = firstOfWord
    IN  IF startsChunk /\ res[j].lineStart = "Collapse"
        THEN [a EXCEPT !.result = [res EXCEPT ![j].addressable = FALSE,
                                              ![j].hidden = TRUE]]
        ELSE LET hangs == startsChunk /\ res[j].lineStart = "HangBehaviour" /\ firstLine
                 pos == IF hangs
                        THEN (IF ltr THEN a.currentPos - res[j].advance
                                     ELSE a.currentPos + res[j].advance)
                        ELSE a.currentPos
                 cr == [res[j] EXCEPT
                          !.anchored_chunk = IF startsChunk THEN TRUE ELSE @,
                          !.isHanging = IF hangs THEN TRUE ELSE @,
                          !.cssPosition = pos]
             IN  [result |-> [res EXCEPT ![j] = cr],
                  currentPos |-> pos + cr.advance,
                  boundingBox |-> RectUnited(a.boundingBox,
                                     RectTranslated(GlyphBoundingBox(cr), pos)),
                  actualLineTop |-> Max(GlyphHeight, a.actualLineTop)]

RECURSIVE AddCharactersToLine(_, _, _, _, _)
AddCharactersToLine(a, word, firstOfWord, firstLine, ltr) ==
    IF word = <<>> THEN a
    ELSE AddCharactersToLine(
            AddCharacterToLine(a, Head(word), firstOfWord, firstLine, ltr),
            Tail(word), firstOfWord, firstLine, ltr)

\* The loop of addWordToLine over wordIndices, from the current chunk's
\* bounding box and the line's actualLineTop.
AddCharactersOfWord(s, ltr) ==
    AddCharactersToLine(
        [result |-> s.result, currentPos |-> s.currentPos,
         boundingBox |-> CurrentChunkOf(s.currentLine).boundingBox,
         actualLineTop |-> s.currentLine.actualLineTop],
        s.wordIndices,
        IF s.wordIndices = <<>> THEN -1 ELSE Head(s.wordIndices),
        s.currentLine.firstLine, ltr)

\* What follows the loop: currentPos = lineAdvance, chunkIndices +=
\* wordIndices and setCurrentChunk; a is what the loop left.
PlaceWord(s, a) ==
    [s EXCEPT
        !.result = a.result,
        !.currentPos = a.currentPos,
        !.currentLine = SetCurrentChunk(
            [s.currentLine EXCEPT !.actualLineTop = a.actualLineTop],
            [CurrentChunkOf(s.currentLine) EXCEPT
                !.boundingBox = a.boundingBox,
                !.chunkIndices = @ \o s.wordIndices])]

\* addWordToLine without its last statement, wordIndices.clear().
AddWordToLineKeepingWord(s, ltr) ==
    PlaceWord(s, AddCharactersOfWord(s, ltr))

AddWordToLine(s, ltr) ==
    [PlaceWord(s, AddCharactersOfWord(s, ltr)) EXCEPT !.wordIndices = <<>>]

----------------------------------------------------------------------------
(* finalizeLine and its helpers, on the inline axis.                       *)

\* handleCollapseAndHang: walks the chunk's indices from the back.
RECURSIVE HandleCollapseAndHang(_, _, _, _, _, _, _)
HandleCollapseAndHang(res, lineIndices, k, endPos, inlineSize, ltr, atEnd) ==
    IF k < 1 THEN res
    ELSE LET lastIndex == lineIndices[k]
             pos == IF ltr THEN endPos ELSE endPos - res[lastIndex].advance
             hung == [res EXCEPT ![lastIndex].cssPosition = pos,
                                 ![lastIndex].finalPosition = pos,
                                 ![lastIndex].isHanging = TRUE]
         IN  IF res[lastIndex].lineEnd = "Collapse"
             THEN HandleCollapseAndHang(
                     [res EXCEPT ![lastIndex].addressable = FALSE,
                                 ![lastIndex].hidden = TRUE],
                     lineIndices, k - 1, endPos, inlineSize, ltr, atEnd)
             ELSE IF res[lastIndex].lineEnd = "ForceHang" /\ inlineSize THEN hung
             ELSE IF res[lastIndex].lineEnd = "HangBehaviour" /\ inlineSize /\ atEnd
             THEN hung
             ELSE res

\* QMap<int,int> visualToLogical of a chunk, as the list of its values():
\* the chunk's characters ordered by visualIndex, a later insert replacing
\* an earlier one with the same key.
RECURSIVE SortedSeq(_)
SortedSeq(S) ==
    IF S = {} THEN <<>>
    ELSE LET m == CHOOSE x \in S : \A y \in S : x <= y
         IN  <<m>> \o SortedSeq(S \ {m})

LastWithVisualIndex(res, lineIndices, v) ==
    lineIndices[CHOOSE k \in DOMAIN lineIndices :
                    /\ res[lineIndices[k]].visualIndex = v
                    /\ \A m \in DOMAIN lineIndices :
                          res[lineIndices[m]].visualIndex = v => m <= k]

VisualToLogicalValues(res, lineIndices) ==
    LET keys == SortedSeq({res[j].visualIndex : j \in Range(lineIndices)})
    IN  [k \in DOMAIN keys |-> LastWithVisualIndex(res, lineIndices, keys[k])]

\* The position loop of finalizeLine over one chunk (no justification
\* offset is added: justifyOffset is the null point unless the line is
\* justified and has an opportunity).
RECURSIVE AssignPositions(_, _, _, _)
AssignPositions(res, order, currentPos, justifyOffset) ==
    IF order = <<>> THEN res
    ELSE LET j == Head(order)
         IN  IF ~res[j].addressable \/ res[j].isHanging
             THEN AssignPositions(res, Tail(order), currentPos, justifyOffset)
             ELSE LET p == IF res[j].justifyBefore
                           THEN currentPos + justifyOffset ELSE currentPos
                      q == p + res[j].advance
                  IN  AssignPositions(
                        [res EXCEPT ![j].cssPosition = p, ![j].finalPosition = p],
                        Tail(order),
                        IF res[j].justifyAfter THEN q + justifyOffset ELSE q,
                        justifyOffset)

\* The count of justification opportunities of a chunk.
JustificationCount(res, order) ==
    LET counted(j) == res[j].addressable /\ ~res[j].isHanging
    IN  Cardinality({k \in DOMAIN order :
            counted(order[k]) /\ res[order[k]].justifyBefore /\ k # 1})
      + Cardinality({k \in DOMAIN order :
            counted(order[k]) /\ res[order[k]].justifyAfter /\ k # Len(order)})

\* The extent [a, b] applyInlineSizeAnchoring measures over a chunk.
RECURSIVE AnchoringExtent(_, _, _, _)
AnchoringExtent(res, lineIndices, k, ab) ==
    IF k > Len(lineIndices) THEN ab
    ELSE LET i == lineIndices[k]
             pos == res[i].finalPosition
             lo == Min(pos, pos + res[i].advance)
             hi == Max(pos, pos + res[i].advance)
         IN  IF ~res[i].addressable \/ res[i].isHanging
             THEN AnchoringExtent(res, lineIndices, k + 1, ab)
             ELSE IF i = lineIndices[1]
             THEN AnchoringExtent(res, lineIndices, k + 1, [a |-> lo, b |-> hi])
             ELSE AnchoringExtent(res, lineIndices, k + 1,
                                  [a |-> Min(ab.a, lo), b |-> Max(ab.b, hi)])

\* applyInlineSizeAnchoring, for text-anchor start and end.
ApplyInlineSizeAnchoring(res, chunk, anchor, anchorPoint, ltr, textIndent) ==
    LET lineIndices == chunk.chunkIndices
        ab0 == AnchoringExtent(res, lineIndices, 1, [a |-> 0, b |-> 0])
        a == IF anchor = "AnchorStart" /\ ltr THEN ab0.a - textIndent ELSE ab0.a
        b == IF anchor = "AnchorStart" /\ ~ltr THEN ab0.b + textIndent ELSE ab0.b
        inlineWidth == chunk.length.p1 - chunk.length.p2
        aStartPos == IF anchor = "AnchorEnd"
                     THEN chunk.length.p1 + inlineWidth ELSE chunk.length.p1
        aEndPos == IF anchor = "AnchorEnd"
                   THEN chunk.length.p1 ELSE chunk.length.p1 - inlineWidth
        shift == IF (anchor = "AnchorStart" /\ ltr) \/ (anchor = "AnchorEnd" /\ ~ltr)
                 THEN anchorPoint - a
                 ELSE anchorPoint - b
        moved(cr) ==
            IF ~cr.isHanging
            THEN [cr EXCEPT !.cssPosition = @ + shift,
                            !.finalPosition = cr.cssPosition + shift]
            ELSE IF cr.anchored_chunk
            THEN LET p == IF ltr THEN aStartPos - cr.advance ELSE aStartPos
                 IN  [cr EXCEPT !.cssPosition = p, !.finalPosition = p]
            ELSE IF cr.lineEnd # "NoChange"
            THEN LET p == IF ltr THEN aEndPos ELSE aEndPos - cr.advance
                 IN  [cr EXCEPT !.cssPosition = p, !.finalPosition = p]
            ELSE cr
    IN  [i \in DOMAIN res |->
            IF i \in Range(lineIndices) THEN moved(res[i]) ELSE res[i]]

\* The justification offset of a chunk: none unless the line is justified
\* and the chunk has an opportunity.
JustifyOffset(res, order, chunk, line) ==
    LET count == IF line.justifyLine THEN JustificationCount(res, order) ELSE 0
    IN  IF count > 0
        THEN (LineLength(chunk.length) - RectWidth(chunk.boundingBox)) \div count
        ELSE 0

\* The end of the loop body: "if (inlineSize)".
AnchorChunk(res, chunk, line, anchor, ltr, inlineSize, textInShape) ==
    IF inlineSize
    THEN ApplyInlineSizeAnchoring(
            res, chunk, anchor,
            IF textInShape /\ anchor = "AnchorEnd" THEN chunk.length.p2
            ELSE chunk.length.p1,
            ltr, line.textIndent)
    ELSE res

\* The loop body after handleCollapseAndHang: res is what that left, order
\* is visualToLogical.values().
PositionChunk(res, order, chunk, line, lineOffset, anchor, ltr, inlineSize, textInShape) ==
    AnchorChunk(AssignPositions(res, order, lineOffset,
                                JustifyOffset(res, order, chunk, line)),
                chunk, line, anchor, ltr, inlineSize, textInShape)

\* The body of finalizeLine's loop for one chunk.
FinalizeChunk(res, chunk, line, lineOffset, anchor, ltr, inlineSize, textInShape) ==
    PositionChunk(
        HandleCollapseAndHang(res, chunk.chunkIndices, Len(chunk.chunkIndices),
                              chunk.length.p2, inlineSize, ltr, line.lastLine),
        VisualToLogicalValues(res, chunk.chunkIndices),
        chunk, line, lineOffset, anchor, ltr, inlineSize, textInShape)

RECURSIVE FinalizeChunks(_, _, _, _, _, _, _, _)
FinalizeChunks(res, chunks, line, lineOffset, anchor, ltr, inlineSize, textInShape) ==
    IF chunks = <<>> THEN res
    ELSE FinalizeChunks(
            FinalizeChunk(res, Head(chunks), line, lineOffset, anchor, ltr,
                          inlineSize, textInShape),
            Tail(chunks), line, lineOffset, anchor, ltr, inlineSize, textInShape)

\* lineHeightOffset, as the number of lines lineOffset moves along the block
\* axis: none for a line without chunks or without height.  A single chunk
\* that holds characters none of which gave the line a height takes the
\* height of its first character.
LineHeightOffset(line) ==
    IF line.chunks = <<>> THEN 0
    ELSE IF Len(line.chunks) = 1 /\ line.actualLineTop = 0
            /\ line.chunks[1].chunkIndices # <<>>
    THEN GlyphHeight
    ELSE line.actualLineTop

\* finalizeLine.  s.row is the block coordinate of lineOffset in lines; the
\* inline coordinate of lineOffset is left alone.
FinalizeLine(s, anchor, ltr, inlineSize, textInShape) ==
    [s EXCEPT
        !.result = FinalizeChunks(s.result, s.currentLine.chunks, s.currentLine,
                                  s.lineOffset, anchor, ltr, inlineSize, textInShape),
        !.row = @ + LineHeightOffset(s.currentLine),
        !.currentPos = s.lineOffset]

\* lineBoxes.append(currentLine)
AppendLine(s) == [s EXCEPT !.lineBoxes = Append(@, s.currentLine)]

----------------------------------------------------------------------------
(* breakLines: one iteration of its loop over logicalToVisual.keys().      *)
(* A line-engine state s holds result and lineBoxes next to the locals of  *)
(* the function; in holds the properties the function reads.               *)

\* currentLine.clearAndAdjust; currentPos += currentLine.textIndent when
\* inline-size is set.  f is the state after the line was appended.
BreakLinesClearLine(f, in, indent) ==
    LET line == ClearAndAdjust(f.currentLine, indent)
    IN  [f EXCEPT !.currentLine = line,
                  !.currentPos = IF in.isAuto THEN @ ELSE @ + line.textIndent]

\* finalizeLine; lineBoxes.append(currentLine); and the clearing above.
BreakLinesCloseLine(s, in, indent) ==
    BreakLinesClearLine(
        AppendLine(FinalizeLine(s, in.anchor, in.ltr, ~in.isAuto, FALSE)),
        in, indent)

\* A restart that forgets the character that did not fit.
BreakLinesRestartWordAtZero(closed, i) ==
    [closed EXCEPT !.wordAdvance = 0]

\* wordLength = result[i].advance after a piece of the word went to a line.
BreakLinesRestartWord(closed, i) ==
    [closed EXCEPT !.wordAdvance = closed.result[i].advance]

\* The overflow-wrap loop: feeds the word to the lines in pieces that are no
\* longer than the inline size.
RECURSIVE BreakLinesSplitWord(_, _, _, _)
BreakLinesSplitWord(s, rest, partialWord, in) ==
    IF rest = <<>> THEN [s EXCEPT !.wordIndices = partialWord]
    ELSE IF s.wordAdvance + s.result[Head(rest)].advance <= in.customValue
    THEN BreakLinesSplitWord(
            [s EXCEPT !.wordAdvance = @ + s.result[Head(rest)].advance],
            Tail(rest), Append(partialWord, Head(rest)), in)
    ELSE BreakLinesSplitWord(
            BreakLinesRestartWord(
                BreakLinesCloseLine(
                    AddWordToLine([s EXCEPT !.wordIndices = partialWord], in.ltr),
                    in, IF in.hanging THEN in.textIndent ELSE 0),
                Head(rest)),
            Tail(rest), <<Head(rest)>>, in)

\* "if (charResult.overflowWrap)" and the addWordToLine after it; closed is
\* the state after the line was closed, firstLine the flag read before.
BreakLinesWrapWord(closed, firstLine, charResult, in) ==
    AddWordToLine(
        IF charResult.overflowWrap /\ ~in.isAuto
              /\ closed.wordAdvance > in.customValue
        THEN BreakLinesSplitWord(
                [closed EXCEPT !.wordAdvance = 0,
                               !.currentLine.firstLine = firstLine],
                closed.wordIndices, <<>>, in)
        ELSE closed,
        in.ltr)

\* The body of "if (softBreak)".
BreakLinesSoftBreak(s, charResult, in) ==
    BreakLinesWrapWord(
        IF ~LineIsEmpty(s.currentLine)
        THEN BreakLinesCloseLine(s, in, IF in.hanging THEN in.textIndent ELSE 0)
        ELSE s,
        s.currentLine.firstLine, charResult, in)

\* A hard break that finalizes the line and clears it without appending it.
BreakLinesHardBreakDroppingLine(s, in) ==
    LET f == FinalizeLine(s, in.anchor, in.ltr, ~in.isAuto, FALSE)
    IN  [f EXCEPT !.currentLine = ClearAndAdjust(f.currentLine, 0)]

\* The body of "if (charResult.breakType == HardBreak)".
BreakLinesHardBreak(s, in) ==
    BreakLinesCloseLine(s, in,
        IF (IF in.hanging THEN FALSE ELSE in.eachLine) THEN in.textIndent ELSE 0)

\* The body of "if (currentLine.lastLine)".
BreakLinesLastLine(s, in) ==
    AppendLine(FinalizeLine(
        IF s.wordIndices # <<>> THEN AddWordToLine(s, in.ltr) ELSE s,
        in.anchor, in.ltr, ~in.isAuto, FALSE))

\* The head of the loop body: the character joins the word.
BreakLinesCountCharacter(s, index, hasNext) ==
    LET charResult == s.result[index]
        doNotCountAdvance ==
            /\ charResult.lineEnd # "NoChange"
            /\ ~(LineIsEmpty(s.currentLine) /\ s.wordIndices = <<>>)
    IN  [s EXCEPT
           !.wordAdvance = IF doNotCountAdvance THEN @
                           ELSE IF s.wordIndices = <<>> THEN charResult.advance
                           ELSE @ + charResult.advance,
           !.wordIndices = Append(@, index),
           !.currentLine.lastLine = ~hasNext]

\* "if (charResult.breakType != NoBreak || currentLine.lastLine)": the word
\* goes to the line unless the line would grow past the inline size.
BreakLinesFit(s, charResult, in) ==
    LET atBreak == charResult.breakType # "NoBreak" \/ s.currentLine.lastLine
        lineLength == s.currentPos - in.startPos + s.wordAdvance
        softBreak == /\ atBreak
                     /\ ~in.isAuto
                     /\ QRound(Abs(lineLength) - in.customValue) > 0
    IN  [s |-> IF atBreak /\ ~softBreak THEN AddWordToLine(s, in.ltr) ELSE s,
         softBreak |-> softBreak]

BreakLinesWrap(fit, charResult, in) ==
    IF fit.softBreak THEN BreakLinesSoftBreak(fit.s, charResult, in) ELSE fit.s

BreakLinesBreak(s, charResult, in) ==
    IF charResult.breakType = "HardBreak" THEN BreakLinesHardBreak(s, in) ELSE s

BreakLinesEnd(s, in) ==
    IF s.currentLine.lastLine THEN BreakLinesLastLine(s, in) ELSE s

BreakLinesIteration(s, index, hasNext, in) ==
    IF ~s.result[index].addressable THEN s
    ELSE BreakLinesEnd(
            BreakLinesBreak(
                BreakLinesWrap(
                    BreakLinesFit(BreakLinesCountCharacter(s, index, hasNext),
                                  s.result[index], in),
                    s.result[index], in),
                s.result[index], in),
            in)

\* The locals of breakLines before its loop.
BreakLinesLocals(in) ==
    LET textIndent == IF in.isAuto THEN 0 ELSE in.textIndent
        endPos == IF in.isAuto THEN 0
                  ELSE IF in.ltr THEN in.startPos + in.customValue
                  ELSE in.startPos - in.customValue
        indented == ~in.hanging /\ ~in.isAuto
    IN  [it |-> 0,
         currentLine |-> [LineBoxFromTo(in.startPos, endPos) EXCEPT
                             !.firstLine = TRUE,
                             !.textIndent = IF indented THEN textIndent ELSE 0],
         wordIndices |-> <<>>,
         wordAdvance |-> 0,
         wordBox |-> NullRect,
         currentPos |-> IF indented THEN in.startPos + textIndent ELSE in.startPos,
         lineOffset |-> in.startPos,
         row |-> 0,
         shapesIt |-> 0,
         textIndent |-> textIndent,
         firstLine |-> TRUE,
         indentLine |-> TRUE]

----------------------------------------------------------------------------
(* Shapes.  A shape is described by what the two geometric searches of     *)
(* flowTextInShapes see of it: the line chunks a horizontal probe line     *)
(* cuts out of it (the same on each of its rows, ordered left to right)    *)
(* and the number of rows (lines) it is high.  The default-constructed     *)
(* QPainterPath has neither.  One unit of the inline axis is half a pixel. *)

EmptyShape == [chunks |-> <<>>, rows |-> 0]
ShapeIsEmpty(shape) == shape.rows = 0
\* boundingRect().left()
ShapeLeft(shape) == IF shape.chunks = <<>> THEN 0 ELSE shape.chunks[1].p1

\* "qreal precision = 1.0" of getFirstPosition, in half pixels.
Precision == 2

\* findLineBoxesForFirstPos: the chunks of the row the probe line lies in,
\* none when the row is outside the shape.
FindLineBoxesForFirstPos(shape, row) ==
    IF row < shape.rows THEN shape.chunks ELSE <<>>

\* getFirstPosition: every offset line is moved into the shape by half the
\* word box plus precision, and a candidate counts only if the shape contains
\* the word box around it, so a chunk admits the word only if it is longer
\* than the word by more than precision.  Candidates above the terminator are
\* dropped; the first candidate in the inline direction wins.
GetFirstPosition(shape, wordBox, row) ==
    LET fits == {k \in DOMAIN shape.chunks :
                    RectWidth(wordBox) + Precision < LineLength(shape.chunks[k])}
    IN  IF ShapeIsEmpty(shape) \/ row >= shape.rows \/ fits = {}
        THEN [found |-> FALSE, firstPoint |-> 0]
        ELSE [found |-> TRUE,
              firstPoint |-> shape.chunks[CHOOSE k \in fits :
                                 \A m \in fits : k <= m].p1 + Precision]

----------------------------------------------------------------------------
(* flowTextInShapes: one iteration of its loop.                            *)

\* The shape the function is in: shapesIt counts the shapes taken.
CurrentShape(s, in) ==
    IF s.shapesIt = 0 THEN EmptyShape ELSE in.shapes[s.shapesIt]

\* The for loop over the chunks of the current line.  Yields the state and
\* whether the loop asked for a soft break.  An iteration entered with i = -1
\* goes on as iteration 0, whether or not the line has a chunk 0.
RECURSIVE FlowFitChunks(_, _, _, _)
FlowFitChunks(s, i, softBreak, in) ==
    IF i >= Len(s.currentLine.chunks)
    THEN [s |-> s, softBreak |-> softBreak]
    ELSE LET j == IF i = -1 THEN 0 ELSE i
             s0 == IF i = -1 THEN [s EXCEPT !.currentLine.currentChunk = 0] ELSE s
             line == ChunkValue(s0.currentLine.chunks, j).length
             lineLength == s0.currentPos - line.p1 + s0.wordAdvance
         IN  IF QRound(Abs(lineLength) - LineLength(line)) > 0
             THEN IF j = Len(s0.currentLine.chunks) - 1
                  THEN [s |-> s0, softBreak |-> TRUE]
                  ELSE LET nextLine == ChunkValue(s0.currentLine.chunks, j + 1).length
                       IN  FlowFitChunks(
                              [s0 EXCEPT !.currentPos =
                                  IF in.ltr THEN Max(nextLine.p1, @)
                                  ELSE Min(nextLine.p1, @)],
                              j + 1, softBreak, in)
             ELSE [s |-> AddWordToLine([s0 EXCEPT !.currentLine.currentChunk = j],
                                       in.ltr),
                   softBreak |-> softBreak]

\* bool ind = textIndentInfo.hanging ? !indentLine : indentLine
FlowIndent(s, in) ==
    IF (IF in.hanging THEN ~s.indentLine ELSE s.indentLine) THEN s.textIndent ELSE 0

\* The first chunk of the line that is longer than the word box, or -1.
FirstLongerChunk(line, wordBox) ==
    LET longer == {i \in 0..Len(line.chunks)-1 :
                      LineLength(line.chunks[i + 1].length) > RectWidth(wordBox)}
    IN  IF longer = {} THEN -1
        ELSE CHOOSE i \in longer : \A m \in longer : i <= m

\* while (!foundFirst): getFirstPosition in the current shape, then in each
\* following shape, taken from the iterator in list order.
RECURSIVE FlowSeekFirstPosition(_, _)
FlowSeekFirstPosition(s, in) ==
    LET first == GetFirstPosition(CurrentShape(s, in), s.wordBox, s.row)
    IN  IF first.found
        THEN [s |-> [s EXCEPT !.currentPos = first.firstPoint], foundFirst |-> TRUE]
        ELSE IF s.shapesIt >= Len(in.shapes)
        THEN [s |-> s, foundFirst |-> FALSE]
        ELSE LET topLeft == ShapeLeft(in.shapes[s.shapesIt + 1])
             IN  FlowSeekFirstPosition(
                    [s EXCEPT !.shapesIt = @ + 1,
                              !.textIndent = in.textIndent,
                              !.currentPos = topLeft,
                              !.lineOffset = topLeft,
                              !.row = 0],
                    in)

\* "if (!currentLine.isEmpty())": the line is finalized and appended.
FlowCloseLine(s, in) ==
    IF ~LineIsEmpty(s.currentLine)
    THEN [AppendLine(FinalizeLine(s, in.anchor, in.ltr, TRUE, TRUE))
             EXCEPT !.firstLine = FALSE, !.indentLine = FALSE]
    ELSE s

\* LineBox(findLineBoxesForFirstPos(currentShape, currentPos, wordBox), ltr,
\* indent)
FlowLineBox(s, indent, in) ==
    LineBoxFromWidths(FindLineBoxesForFirstPos(CurrentShape(s, in), s.row), indent)

\* The offset line tried before getFirstPosition: probed is the line at
\* currentPos, longer its first chunk longer than the word box, or -1.
FlowTryLine(s, probed, longer) ==
    [s |-> [s EXCEPT
              !.currentPos = @ - (IF s.wordBox.null THEN 0 ELSE s.wordBox.l),
              !.currentLine = IF longer = -1 THEN probed
                              ELSE [probed EXCEPT !.currentChunk = longer]],
     foundFirst |-> longer # -1,
     needNewLine |-> longer = -1]

FlowTryProbed(s, probed) ==
    FlowTryLine(s, probed, FirstLongerChunk(probed, s.wordBox))

\* "if (!currentShape.isEmpty())"
FlowTryCurrentShape(s, in) ==
    IF ShapeIsEmpty(CurrentShape(s, in))
    THEN [s |-> s, foundFirst |-> FALSE, needNewLine |-> TRUE]
    ELSE FlowTryProbed(s, FlowLineBox(s, FlowIndent(s, in), in))

\* "while (!foundFirst)"
FlowSeek(tried, in) ==
    IF tried.foundFirst THEN tried
    ELSE FlowSeekFirstPosition(tried.s, in) @@ [needNewLine |-> TRUE]

\* The word goes to chunk line.chunk() of line, which starts at its p1.
FlowStartLine(s, line, indent, in) ==
    AddWordToLine(
        [s EXCEPT !.currentLine = [line EXCEPT !.firstLine = s.firstLine,
                                               !.justifyLine = in.justify],
                  !.currentPos = CurrentChunkOf(line).length.p1 + indent,
                  !.lineOffset = CurrentChunkOf(line).length.p1 + indent],
        in.ltr)

\* "if (foundFirst) ... else": the word is placed, or hidden.  indent is
\* the one the search ended with.
FlowPlaceWord(sought, in) ==
    IF sought.foundFirst
    THEN FlowStartLine(
            sought.s,
            IF sought.needNewLine
            THEN SetCurrentChunkForPos(
                    FlowLineBox(sought.s, FlowIndent(sought.s, in), in),
                    sought.s.currentPos)
            ELSE sought.s.currentLine,
            FlowIndent(sought.s, in), in)
    ELSE [sought.s EXCEPT
            !.currentLine = LineBox,
            !.result = [j \in DOMAIN sought.s.result |->
                           IF j \in Range(sought.s.wordIndices)
                           THEN [sought.s.result[j] EXCEPT !.hidden = TRUE]
                           ELSE sought.s.result[j]]]

\* The search for a place for the word, from the state after the line was
\* closed.
FlowNewLine(closed, in) ==
    FlowPlaceWord(FlowSeek(FlowTryCurrentShape(closed, in), in), in)

\* The body of "if (softBreak)".
FlowSoftBreak(s, in) == FlowNewLine(FlowCloseLine(s, in), in)

\* The body of "if (charResult.breakType == HardBreak)".
FlowHardBreak(s, in) ==
    [AppendLine(FinalizeLine(s, in.anchor, in.ltr, TRUE, TRUE)) EXCEPT
        !.currentLine = LineBox,
        !.indentLine = IF in.hanging THEN FALSE ELSE in.eachLine]

\* The head of the loop body: the character joins the word.
FlowCountCharacter(s, index, hasNext, in) ==
    LET charResult == s.result[index]
        doNotCountAdvance ==
            /\ charResult.lineEnd # "NoChange"
            /\ ~(LineIsEmpty(s.currentLine) /\ s.wordIndices = <<>>)
    IN  [s EXCEPT
           !.wordBox = IF doNotCountAdvance THEN @
                       ELSE IF s.wordIndices = <<>> THEN GlyphBoundingBox(charResult)
                       ELSE RectUnited(@, RectTranslated(GlyphBoundingBox(charResult),
                                                         s.wordAdvance)),
           !.wordAdvance = IF doNotCountAdvance THEN @
                           ELSE IF s.wordIndices = <<>> THEN charResult.advance
                           ELSE @ + charResult.advance,
           !.wordIndices = Append(@, index),
           !.currentLine.lastLine = ~hasNext,
           !.currentLine.justifyLine = IF ~hasNext THEN in.justifyLast ELSE @]

\* "if (charResult.breakType != NoBreak || currentLine.lastLine)"
FlowFit(s, charResult, in) ==
    IF charResult.breakType # "NoBreak" \/ s.currentLine.lastLine
    THEN FlowFitChunks(s, s.currentLine.currentChunk,
                       s.currentLine.chunks = <<>> \/ s.currentLine.lastLine, in)
    ELSE [s |-> s, softBreak |-> FALSE]

FlowWrap(fit, in) ==
    IF fit.softBreak THEN FlowSoftBreak(fit.s, in) ELSE fit.s

FlowBreak(s, charResult, in) ==
    IF charResult.breakType = "HardBreak" THEN FlowHardBreak(s, in) ELSE s

FlowIteration(s, index, hasNext, in) ==
    IF ~s.result[index].addressable THEN s
    ELSE FlowBreak(
            FlowWrap(FlowFit(FlowCountCharacter(s, index, hasNext, in),
                             s.result[index], in),
                     in),
            s.result[index], in)

\* After the loop: the line in progress is finalized and appended.
FlowFinish(s, in) == AppendLine(FinalizeLine(s, in.anchor, in.ltr, TRUE, TRUE))

\* The locals of flowTextInShapes before its loop.
FlowLocals(shapes) ==
    [it |-> 0,
     currentLine |-> LineBox,
     wordIndices |-> <<>>,
     wordAdvance |-> 0,
     wordBox |-> NullRect,
     currentPos |-> IF shapes = <<>> THEN 0 ELSE ShapeLeft(shapes[1]),
     lineOffset |-> IF shapes = <<>> THEN 0 ELSE ShapeLeft(shapes[1]),
     row |-> 0,
     shapesIt |-> 0,
     textIndent |-> 0,
     firstLine |-> TRUE,
     indentLine |-> TRUE]

----------------------------------------------------------------------------
(* The line engines as relayout calls them.                                *)

MaxLineChars == 4
MaxShapes == 2

\* The characters of the texts: a letter, a letter with a break opportunity
\* after it, a preserved space, a preserved line feed, and a space and a
\* line feed that white-space collapsing discards.  Every glyph is a pixel
\* wide; advances are in half pixels.
TextChars ==
    { [kind |-> [breakType |-> "NoBreak", lineEnd |-> "NoChange",
                 lineStart |-> "NoChange"], collapse |-> FALSE, advance |-> 2],
      [kind |-> [breakType |-> "SoftBreak", lineEnd |-> "NoChange",
                 lineStart |-> "NoChange"], collapse |-> FALSE, advance |-> 2],
      [kind |-> [breakType |-> "SoftBreak", lineEnd |-> "Collapse",
                 lineStart |-> "Collapse"], collapse |-> FALSE, advance |-> 2],
      [kind |-> [breakType |-> "HardBreak", lineEnd |-> "Collapse",
                 lineStart |-> "Collapse"], collapse |-> FALSE, advance |-> 2],
      [kind |-> [breakType |-> "SoftBreak", lineEnd |-> "Collapse",
                 lineStart |-> "Collapse"], collapse |-> TRUE, advance |-> 2],
      [kind |-> [breakType |-> "HardBreak", lineEnd |-> "Collapse",
                 lineStart |-> "Collapse"], collapse |-> TRUE, advance |-> 2] }

\* The glyph loop over a text that shapes to one glyph per character, in
\* logical order.
RECURSIVE ShapeGlyphs(_, _, _)
ShapeGlyphs(o, text, i) ==
    IF i >= Len(text) THEN o
    ELSE ShapeGlyphs(
            GlyphIteration(o.result, o.logicalToVisual,
                           [c \in 0..Len(text)-1 |-> text[c + 1].collapse],
                           [cluster |-> i, loadOk |-> TRUE,
                            advance |-> text[i + 1].advance],
                           i),
            text, i + 1)

\* result and logicalToVisual as relayout hands them to the line engine.
ShapeText(text, overflowWrap) ==
    LET n == Len(text)
        before == ResultBeforeGlyphs(n, [c \in 0..n-1 |-> text[c + 1].kind])
        o == ShapeGlyphs(
                [result |-> [c \in 0..n-1 |->
                                [before[c] EXCEPT !.overflowWrap = overflowWrap]],
                 logicalToVisual |-> <<>>],
                text, 0)
    IN  [result |-> FixUpClusters(o.result, n),
         logicalToVisual |-> o.logicalToVisual]

\* logicalToVisual.keys()
Keys(l2v) == SortedSeq(DOMAIN l2v)

\* The shapes of shape-inside: a rectangle a line high that is half a pixel
\* wider than a glyph, a rectangle two lines high, and a shape a probe line
\* crosses twice.  Chunk lengths are odd and advances even, so that no word
\* ends exactly on the edge of a chunk.
ShapeTemplates ==
    { [chunks |-> <<QLineF(0, 3)>>, rows |-> 1],
      [chunks |-> <<QLineF(0, 5)>>, rows |-> 2],
      [chunks |-> <<QLineF(0, 3), QLineF(4, 9)>>, rows |-> 1] }

InlineSizes == {1, 3}

\* The properties both engines read; the text is horizontal, left to right,
\* anchored at its start, without text-indent and not justified.
Properties(isAuto, customValue) ==
    [isAuto |-> isAuto, customValue |-> customValue, ltr |-> TRUE,
     anchor |-> "AnchorStart", startPos |-> 0, textIndent |-> 0,
     hanging |-> FALSE, eachLine |-> FALSE, justify |-> FALSE,
     justifyLast |-> FALSE]

\* The arguments of a call: the text the run tree holds, its properties, the
\* shapes, and logicalToVisual and result as step 2 of relayout left them.
LineInput(engine, text, overflowWrap, props, shapes) ==
    LET shaped == ShapeText(text, overflowWrap)
    IN  [engine |-> engine, text |-> text, overflowWrap |-> overflowWrap,
         props |-> props, shapes |-> shapes,
         logicalToVisual |-> shaped.logicalToVisual,
         result |-> shaped.result]

\* The function's view of its arguments.
In == [f \in DOMAIN input.props \cup {"shapes"} |->
          IF f = "shapes" THEN input.shapes ELSE input.props[f]]

LineState == eng @@ [result |-> result, lineBoxes |-> lineBoxes]

\* result, lineBoxes and the locals after a piece of the function ran.
Becomes(s) ==
    /\ result' = s.result
    /\ lineBoxes' = s.lineBoxes
    /\ eng' = [f \in DOMAIN eng |-> s[f]]

Init ==
    /\ \E n \in 1..MaxLineChars : \E text \in [1..n -> TextChars] :
          \/ \E overflowWrap \in BOOLEAN :
                \/ input = LineInput("breakLines", text, overflowWrap,
                                     Properties(TRUE, 0), <<>>)
                \/ \E v \in InlineSizes :
                      input = LineInput("breakLines", text, overflowWrap,
                                        Properties(FALSE, v), <<>>)
          \/ \E shapes \in SeqsUpTo(ShapeTemplates, MaxShapes) :
                input = LineInput("flowTextInShapes", text, FALSE,
                                  Properties(TRUE, 0), shapes)
    /\ pc = input.engine
    /\ result = input.result
    /\ lineBoxes = <<>>
    /\ eng = IF input.engine = "breakLines" THEN BreakLinesLocals(input.props)
             ELSE FlowLocals(input.shapes)
    /\ ret = "none"

BreakLinesStep ==
    /\ pc = "breakLines"
    /\ eng.it < Len(Keys(input.logicalToVisual))
    /\ Becomes([BreakLinesIteration(LineState, Keys(input.logicalToVisual)[eng.it + 1],
                                    eng.it + 1 < Len(Keys(input.logicalToVisual)), In)
                   EXCEPT !.it = @ + 1])
    /\ UNCHANGED <<pc, input, ret>>

BreakLinesReturn ==
    /\ pc = "breakLines"
    /\ eng.it = Len(Keys(input.logicalToVisual))
    /\ pc' = "returned"
    /\ ret' = "lineBoxes"
    /\ UNCHANGED <<input, result, lineBoxes, eng>>

\* shapes.at(0) is evaluated before the test for an empty list: on an empty
\* list the read is out of range, and the function either fails there or goes
\* on to return no line boxes.
FlowEmptyShapes ==
    /\ pc = "flowTextInShapes"
    /\ input.shapes = <<>>
    /\ pc' = "returned"
    /\ ret' \in {"crashed", "lineBoxes"}
    /\ UNCHANGED <<input, result, lineBoxes, eng>>

FlowStep ==
    /\ pc = "flowTextInShapes"
    /\ input.shapes # <<>>
    /\ eng.it < Len(Keys(input.logicalToVisual))
    /\ Becomes([FlowIteration(LineState, Keys(input.logicalToVisual)[eng.it + 1],
                              eng.it + 1 < Len(Keys(input.logicalToVisual)), In)
                   EXCEPT !.it = @ + 1])
    /\ UNCHANGED <<pc, input, ret>>

FlowReturn ==
    /\ pc = "flowTextInShapes"
    /\ input.shapes # <<>>
    /\ eng.it = Len(Keys(input.logicalToVisual))
    /\ Becomes(FlowFinish(LineState, In))
    /\ pc' = "returned"
    /\ ret' = "lineBoxes"
    /\ UNCHANGED input

Next ==
    \/ BreakLinesStep
    \/ BreakLinesReturn
    \/ FlowEmptyShapes
    \/ FlowStep
    \/ FlowReturn

Spec == Init /\ [][Next]_vars

----------------------------------------------------------------------------
(* What the line engines return.                                           *)

Returned == pc = "returned" /\ ret = "lineBoxes"

\* The places of the returned line boxes: line, chunk, position in chunk.
Slots ==
    UNION { UNION { {<<l, c, k>> :
                        k \in DOMAIN lineBoxes[l].chunks[c].chunkIndices}
                    : c \in DOMAIN lineBoxes[l].chunks }
            : l \in DOMAIN lineBoxes }
SlotIndex(p) == lineBoxes[p[1]].chunks[p[2]].chunkIndices[p[3]]
Occurrences(i) == Cardinality({p \in Slots : SlotIndex(p) = i})

\* The characters that were addressable when the engine was called.
AddressableOnEntry == {i \in DOMAIN input.result : input.result[i].addressable}

\* C1 as stated: after the engine returns, the characters whose addressable
\* flag is true are exactly the characters listed in the chunks, each once.
C1_AsStated ==
    Returned =>
        \A i \in DOMAIN result :
            /\ result[i].addressable => Occurrences(i) = 1
            /\ Occurrences(i) > 0 => result[i].addressable

\* C1: after the engine returns no character is listed twice and every listed
\* character was addressable on entry; a listed character that is no longer
\* addressable was collapsed at a line edge and is hidden; breakLines lists
\* every character that was addressable on entry, and flowTextInShapes leaves
\* one out only if it marked it hidden or was given no shape.
C1_PlacedAtMostOnce ==
    Returned =>
        \A i \in DOMAIN result :
            /\ Occurrences(i) <= 1
            /\ Occurrences(i) = 1 => i \in AddressableOnEntry
            /\ result[i].addressable => i \in AddressableOnEntry
            /\ (Occurrences(i) = 1 /\ ~result[i].addressable) =>
                  /\ result[i].hidden
                  /\ "Collapse" \in {result[i].lineStart, result[i].lineEnd}
            /\ (i \in AddressableOnEntry /\ Occurrences(i) = 0) =>
                  /\ input.engine = "flowTextInShapes"
                  /\ input.shapes = <<>> \/ (result[i].hidden /\ result[i].addressable)

\* breakLines has returned two lines; a space collapsed at the end of the
\* first one is listed in it though it is no longer addressable.
C1_Witness ==
    /\ Returned
    /\ input.engine = "breakLines"
    /\ Len(lineBoxes) = 2
    /\ \E p \in Slots :
          /\ p[1] = 1
          /\ ~result[SlotIndex(p)].addressable
          /\ result[SlotIndex(p)].breakType = "SoftBreak"
    /\ \A i \in AddressableOnEntry : Occurrences(i) = 1

\* The characters a line box holds.
LineIndices(line) ==
    UNION {Range(line.chunks[c].chunkIndices) : c \in DOMAIN line.chunks}

\* The addressable characters that carry a hard break.
HardBreaks ==
    {h \in AddressableOnEntry : input.result[h].breakType = "HardBreak"}

SplitByHardBreak(line) ==
    \E h \in HardBreaks : \E i, j \in LineIndices(line) : i <= h /\ h < j

\* C2: in both engines and whatever the inline size, no line box, appended
\* or in progress, holds characters from both sides of a hard break.
C2_AsStated ==
    /\ \A l \in DOMAIN lineBoxes : ~SplitByHardBreak(lineBoxes[l])
    /\ ~SplitByHardBreak(eng.currentLine)

C2_BreakLinesOnly ==
    input.engine = "breakLines" => C2_AsStated

----------------------------------------------------------------------------
(* breakLines without an inline size.                                      *)

AutoBreakLines ==
    Returned /\ input.engine = "breakLines" /\ input.props.isAuto

\* The indices of a line box, chunk after chunk.
RECURSIVE ChunkIndicesOf(_)
ChunkIndicesOf(chunks) ==
    IF chunks = <<>> THEN <<>>
    ELSE Head(chunks).chunkIndices \o ChunkIndicesOf(Tail(chunks))

\* The characters that follow exactly k hard breaks, in logical order.
AfterHardBreaks(k) ==
    SortedSeq({i \in AddressableOnEntry :
                  Cardinality({h \in HardBreaks : h < i}) = k})

\* C3 as stated: with inline-size auto breakLines returns as many line boxes
\* as the text has hard breaks, plus one.
C3_AsStated ==
    AutoBreakLines => Len(lineBoxes) = Cardinality(HardBreaks) + 1

\* C3: with inline-size auto breakLines returns no line box for a text
\* without addressable characters; for any other text it returns as many line
\* boxes as the text has hard breaks, plus one, and the k-th of them holds, in
\* logical order, the characters that follow k-1 hard breaks.
C3_LinePerHardBreak ==
    AutoBreakLines =>
        IF AddressableOnEntry = {} THEN lineBoxes = <<>>
        ELSE /\ Len(lineBoxes) = Cardinality(HardBreaks) + 1
             /\ \A l \in DOMAIN lineBoxes :
                   ChunkIndicesOf(lineBoxes[l].chunks) = AfterHardBreaks(l - 1)

\* The text "A B <hard break> C D" has come back as the lines A,B and C,D.
C3_Witness ==
    /\ AutoBreakLines
    /\ AddressableOnEntry = 0..3
    /\ HardBreaks = {1}
    /\ Len(lineBoxes) = 2
    /\ ChunkIndicesOf(lineBoxes[1].chunks) = <<0, 1>>
    /\ ChunkIndicesOf(lineBoxes[2].chunks) = <<2, 3>>
    /\ result[1].breakType = "HardBreak"

----------------------------------------------------------------------------
(* Words in flowTextInShapes.                                              *)

FlowKeys == Keys(input.logicalToVisual)

\* A character after which the engines look at the line: one that carries a
\* break opportunity, or the last one.
EndsWord(p) ==
    p = Len(FlowKeys) \/ input.result[FlowKeys[p]].breakType # "NoBreak"

\* The positions in FlowKeys of the word that ends at position p: the
\* characters after the previous break opportunity.
WordEndingAt(p) ==
    {q \in 1..p : \A m \in q..(p - 1) : ~EndsWord(m)}

\* The extent of the word on its own at the start of a line: white space
\* that may collapse at a line end counts only when it leads the word.
WordWidth(p) ==
    LET w == WordEndingAt(p)
        first == CHOOSE q \in w : \A m \in w : q <= m
    IN  SumSeq([k \in 1..Cardinality(w) |->
                  LET q == first + k - 1
                  IN  IF q = first \/ input.result[FlowKeys[q]].lineEnd = "NoChange"
                      THEN input.result[FlowKeys[q]].advance ELSE 0])

\* The characters placed so far, in the appended lines or the one in progress.
Placed ==
    UNION {LineIndices(lineBoxes[l]) : l \in DOMAIN lineBoxes}
        \cup LineIndices(eng.currentLine)

InFlow == input.engine = "flowTextInShapes" /\ input.shapes # <<>>

\* Every chunk of every shape is shorter than the word.
WiderThanEveryChunk(p) ==
    \A k \in DOMAIN input.shapes : \A c \in DOMAIN input.shapes[k].chunks :
        LineLength(input.shapes[k].chunks[c]) < WordWidth(p)

\* C5 as stated: once flowTextInShapes has returned, a word that is wider
\* than every line chunk of the shapes sits in one line chunk, and none of
\* its characters is hidden.
C5_AsStated ==
    (Returned /\ InFlow) =>
        \A p \in DOMAIN FlowKeys :
            (EndsWord(p) /\ WiderThanEveryChunk(p)) =>
                /\ \E l \in DOMAIN lineBoxes : \E c \in DOMAIN lineBoxes[l].chunks :
                      {FlowKeys[q] : q \in WordEndingAt(p)}
                          \subseteq Range(lineBoxes[l].chunks[c].chunkIndices)
                /\ \A q \in WordEndingAt(p) : ~result[FlowKeys[q]].hidden

\* The shapes the iteration that handles position p can still use: the
\* current one at the current row, the later ones from their top.
AdmittingShapes(p) ==
    {k \in Max(eng.shapesIt, 1)..Len(input.shapes) :
        GetFirstPosition(input.shapes[k], Rect(0, WordWidth(p)),
                         IF k = eng.shapesIt THEN eng.row ELSE 0).found}

\* flowTextInShapes is about to handle the last character of a word with no
\* line in progress, and a remaining shape admits the word.
AdmittedWordPending ==
    /\ pc = "flowTextInShapes" /\ InFlow
    /\ eng.it < Len(FlowKeys)
    /\ EndsWord(eng.it + 1)
    /\ LineIsEmpty(eng.currentLine)
    /\ AdmittingShapes(eng.it + 1) # {}

\* The word that ended at the character just handled is placed, and none of
\* its characters but collapsible white space is hidden.
WordPlacedVisible ==
    \A q \in WordEndingAt(eng.it) :
        /\ FlowKeys[q] \in Placed
        /\ result[FlowKeys[q]].lineEnd = "NoChange" => ~result[FlowKeys[q]].hidden

\* C6 as stated, in the direction "admitted, so placed and not hidden": a
\* step of flowTextInShapes that handles the last character of a word which
\* the current shape or a later one admits places the word and leaves it
\* visible.
C6_AsStated ==
    [][AdmittedWordPending => WordPlacedVisible']_vars

----------------------------------------------------------------------------
(* characterResultOnPath.  Lengths are in half units of the source, so     *)
(* that "advance * 0.5" and "length * 0.5" are integers: advances and path *)
(* lengths are even.                                                       *)

MaxPathLength == 3
MaxPathPos == 5

\* C's fmod: the remainder has the sign of the dividend.
Fmod(a, b) == IF a >= 0 THEN a % b ELSE -((-a) % b)

\* Yields the character as the function leaves it and the value it returns.
CharacterResultOnPath(cr, length, offset, isClosed) ==
    LET rtl == cr.direction = "DirectionRightToLeft"
        mid == cr.finalPosition + (cr.advance \div 2) + offset
        startSide == \/ cr.anchor = "AnchorStart" /\ ~rtl
                     \/ cr.anchor = "AnchorEnd" /\ rtl
        endSide == \/ cr.anchor = "AnchorEnd" /\ ~rtl
                   \/ cr.anchor = "AnchorStart" /\ rtl
        outside == IF isClosed
                   THEN IF startSide
                        THEN mid - offset < 0 \/ mid - offset > length
                        ELSE IF endSide
                        THEN mid - offset < -length \/ mid - offset > 0
                        ELSE \/ mid - offset < -(length \div 2)
                             \/ mid - offset > (length \div 2)
                   ELSE mid < 0 \/ mid > length
    IN  [cr |-> IF outside THEN [cr EXCEPT !.hidden = TRUE] ELSE cr,
         mid |-> IF isClosed
                 THEN Fmod(IF mid < 0 THEN mid + length ELSE mid, length)
                 ELSE mid]

TextAnchors == {"AnchorStart", "AnchorMiddle", "AnchorEnd"}
Directions == {"DirectionLeftToRight", "DirectionRightToLeft"}

InitPath ==
    /\ pc = "characterResultOnPath"
    /\ \E pos \in -MaxPathPos..MaxPathPos, offset \in -MaxPathPos..MaxPathPos,
          halfLength \in 1..MaxPathLength, anchor \in TextAnchors,
          direction \in Directions, isClosed \in BOOLEAN, hidden \in BOOLEAN :
          input = [cr |-> [CharacterResult EXCEPT !.finalPosition = pos,
                                                  !.advance = 2,
                                                  !.anchor = anchor,
                                                  !.direction = direction,
                                                  !.hidden = hidden],
                   length |-> 2 * halfLength,
                   offset |-> offset,
                   isClosed |-> isClosed]
    /\ result = (0 :> input.cr)
    /\ lineBoxes = <<>>
    /\ eng = [mid |-> 0]
    /\ ret = "none"

CharacterResultOnPathCall ==
    /\ pc = "characterResultOnPath"
    /\ LET o == CharacterResultOnPath(result[0], input.length, input.offset,
                                      input.isClosed)
       IN  /\ result' = (0 :> o.cr)
           /\ eng' = [mid |-> o.mid]
    /\ pc' = "returned"
    /\ ret' = "mid"
    /\ UNCHANGED <<input, lineBoxes>>

NextPath == CharacterResultOnPathCall

SpecPath == InitPath /\ [][NextPath]_vars

\* The call was for a closed path and a character anchored in the middle.
ClosedMiddleReturned ==
    /\ pc = "returned" /\ ret = "mid"
    /\ input.isClosed
    /\ input.cr.anchor = "AnchorMiddle"

\* mid - offset, the midpoint of the character before the start offset.
MidBeforeOffset == input.cr.finalPosition + (input.cr.advance \div 2)

OutsideHalfLength ==
    \/ MidBeforeOffset < -(input.length \div 2)
    \/ MidBeforeOffset > (input.length \div 2)

\* C7 as stated: on a closed path with anchor middle the function hides the
\* character exactly when mid - offset lies outside [-length/2, length/2],
\* and the value it returns for a character it leaves visible lies in
\* [0, length).
C7_AsStated ==
    ClosedMiddleReturned =>
        /\ ~result[0].hidden => (0 <= eng.mid /\ eng.mid < input.length)
        /\ ~input.cr.hidden => (result[0].hidden <=> OutsideHalfLength)

\* The part of C7 about hiding: it holds whatever the start offset.
C7_HiddenExactlyOutside ==
    ClosedMiddleReturned =>
        (~input.cr.hidden => (result[0].hidden <=> OutsideHalfLength))

----------------------------------------------------------------------------
(* relayout, steps 6 and 7: "Adjust positions: x, y" and applyAnchoring.   *)
(* Positions are on the inline axis; they and the advances are even, so    *)
(* that "(a + b) * 0.5" is an integer.                                     *)

MaxChunkChars == 3

\* Step 6.  xPos holds per character the x attribute resolved for it, as a
\* one-element tuple, or the empty tuple; no character has a dx.
RECURSIVE AdjustPositionsXY(_, _, _, _)
AdjustPositionsXY(res, xPos, i, shift) ==
    IF i >= Len(xPos) THEN res
    ELSE IF ~res[i].addressable
    THEN AdjustPositionsXY(res, xPos, i + 1, shift)
    ELSE LET sh == IF xPos[i + 1] # <<>>
                   THEN xPos[i + 1][1] + (0 - res[i].finalPosition)
                   ELSE shift
         IN  AdjustPositionsXY([res EXCEPT ![i].finalPosition = @ + sh],
                               xPos, i + 1, sh)

\* The for loop of applyAnchoring that measures the chunk starting at start:
\* yields the index it stops at and the extent [a, b].
RECURSIVE AnchoredChunkExtent(_, _, _, _, _, _)
AnchoredChunkExtent(res, n, start, i, a, b) ==
    IF i >= n THEN [i |-> i, a |-> a, b |-> b]
    ELSE IF ~res[i].addressable
    THEN AnchoredChunkExtent(res, n, start, i + 1, a, b)
    ELSE IF res[i].anchored_chunk /\ i > start
    THEN [i |-> i, a |-> a, b |-> b]
    ELSE LET pos == res[i].finalPosition
             lo == Min(pos, pos + res[i].advance)
             hi == Max(pos, pos + res[i].advance)
         IN  IF res[i].anchored_chunk
             THEN AnchoredChunkExtent(res, n, start, i + 1, lo, hi)
             ELSE AnchoredChunkExtent(res, n, start, i + 1, Min(a, lo), Max(b, hi))

\* The shift of a variant that reads the anchor without the direction.
AnchoringShiftIgnoringDirection(first, a, b) ==
    IF first.anchor = "AnchorStart" THEN first.finalPosition - a
    ELSE IF first.anchor = "AnchorEnd" THEN first.finalPosition - b
    ELSE first.finalPosition - ((a + b) \div 2)

\* The shift applyAnchoring gives the chunk that starts at start.
AnchoringShift(first, a, b) ==
    LET rtl == first.direction = "DirectionRightToLeft"
    IN  IF (first.anchor = "AnchorStart" /\ ~rtl) \/ (first.anchor = "AnchorEnd" /\ rtl)
        THEN first.finalPosition - a
        ELSE IF (first.anchor = "AnchorEnd" /\ ~rtl)
                \/ (first.anchor = "AnchorStart" /\ rtl)
        THEN first.finalPosition - b
        ELSE first.finalPosition - ((a + b) \div 2)

\* applyAnchoring: the while loop over the anchored chunks.
RECURSIVE ApplyAnchoring(_, _, _)
ApplyAnchoring(res, n, start) ==
    IF start >= n THEN res
    ELSE LET e == AnchoredChunkExtent(res, n, start, start, 0, 0)
             shift == AnchoringShift(res[start], e.a, e.b)
         IN  ApplyAnchoring(
                [j \in DOMAIN res |->
                    IF start <= j /\ j < e.i
                    THEN [res[j] EXCEPT !.finalPosition = @ + shift]
                    ELSE res[j]],
                n, e.i)

AnchorPoints == {-2, 0, 2}

\* The order in which finalizeLine walks a run: raqm numbers the glyphs of a
\* right-to-left run from its last character.
VisualOrder(n, direction) ==
    [k \in 1..n |-> IF direction = "DirectionLeftToRight" THEN k - 1 ELSE n - k]

\* The text as the line breaking of an auto inline-size leaves it: one line
\* that starts at startPos, the resolved position of the first character.
\* A character with an x attribute of its own starts an anchored chunk.
AnchorInput(n, advances, direction, anchor, xPos) ==
    LET chars == [i \in 0..n-1 |->
                    [CharacterResult EXCEPT !.advance = advances[i],
                                            !.direction = direction,
                                            !.anchor = anchor,
                                            !.visualIndex = IF direction = "DirectionLeftToRight"
                                                           THEN i ELSE n - 1 - i,
                                            !.anchored_chunk = xPos[i + 1] # <<>>]]
    IN  [n |-> n, xPos |-> xPos, direction |-> direction, anchor |-> anchor,
         result |-> AssignPositions(chars, VisualOrder(n, direction),
                                    xPos[1][1], 0)]

InitAnchor ==
    /\ pc = "adjustXY"
    /\ \E n \in 1..MaxChunkChars, direction \in Directions, anchor \in TextAnchors,
          x \in AnchorPoints :
          \E advances \in [0..n-1 -> {2, 4}], second \in 0..n-1, x2 \in AnchorPoints :
             input = AnchorInput(n, advances, direction, anchor,
                                 [k \in 1..n |->
                                     IF k = 1 THEN <<x>>
                                     ELSE IF k = second + 1 THEN <<x2>>
                                     ELSE <<>>])
    /\ result = input.result
    /\ lineBoxes = <<>>
    /\ eng = [step |-> 5]
    /\ ret = "none"

AdjustPositionsStep ==
    /\ pc = "adjustXY"
    /\ result' = AdjustPositionsXY(result, input.xPos, 0, 0)
    /\ pc' = "applyAnchoring"
    /\ eng' = [step |-> 6]
    /\ UNCHANGED <<input, lineBoxes, ret>>

ApplyAnchoringStep ==
    /\ pc = "applyAnchoring"
    /\ result' = ApplyAnchoring(result, input.n, 0)
    /\ pc' = "anchored"
    /\ eng' = [step |-> 7]
    /\ UNCHANGED <<input, lineBoxes, ret>>

NextAnchor == AdjustPositionsStep \/ ApplyAnchoringStep

SpecAnchor == InitAnchor /\ [][NextAnchor]_vars

\* applyAnchoring has run on a text that is one anchored chunk with
\* text-anchor start.
SingleChunkAnchoredAtStart ==
    /\ pc = "anchored"
    /\ input.anchor = "AnchorStart"
    /\ \A k \in 2..input.n : input.xPos[k] = <<>>

\* The anchor point: the resolved position of the chunk's first character.
AnchorPoint == input.xPos[1][1]

----------------------------------------------------------------------------
(* applyTextLength.  The run tree is a root with leaf children, or a root  *)
(* that is a leaf itself; a run is its character count, its textLength     *)
(* (isAuto, customValue) and whether lengthAdjust is spacingAndGlyphs.     *)
(* Every glyph advances by GlyphAdvance and every textLength is a multiple *)
(* of it, which keeps "delta / n" an integer for the runs of the model.    *)

MaxRunChars == 2
MaxRuns == 2
GlyphAdvance == 12

\* The addressable characters of i..j-1 with a visual index, by visual index.
VisualToLogical(res, ks) ==
    LET shown == {k \in ks : res[k].addressable /\ res[k].visualIndex > -1}
        RECURSIVE ByVisualIndex(_)
        ByVisualIndex(S) ==
            IF S = {} THEN <<>>
            ELSE LET k == CHOOSE x \in S :
                              \A y \in S : res[x].visualIndex <= res[y].visualIndex
                 IN  <<k>> \o ByVisualIndex(S \ {k})
    IN  ByVisualIndex(shown)

\* The first loop of the textLength branch: the extent [a, b] of the run and
\* the number of its characters no textLength was applied to yet.
RECURSIVE TextLengthExtent(_, _, _, _, _)
TextLengthExtent(res, i, j, k, e) ==
    IF k >= j THEN e
    ELSE IF ~res[k].addressable THEN TextLengthExtent(res, i, j, k + 1, e)
    ELSE LET pos == res[k].finalPosition
             lo == Min(pos, pos + res[k].advance)
             hi == Max(pos, pos + res[k].advance)
         IN  TextLengthExtent(res, i, j, k + 1,
                [a |-> IF k = i THEN lo ELSE Min(e.a, lo),
                 b |-> IF k = i THEN hi ELSE Max(e.b, hi),
                 n |-> IF res[k].textLengthApplied THEN e.n ELSE e.n + 1])

\* The loop over visualToLogical.keys() that spreads the characters.
RECURSIVE SpreadCharacters(_, _, _, _, _, _)
SpreadCharacters(res, order, d, spacingAndGlyphs, shift, secondTextLengthApplied) ==
    IF order = <<>> THEN [result |-> res, shift |-> shift]
    ELSE LET k == Head(order)
             cr == res[k]
             last == IF spacingAndGlyphs THEN FALSE ELSE Len(order) = 1
             moved == [cr EXCEPT
                         !.finalPosition = @ + shift,
                         !.advance = IF spacingAndGlyphs /\ d # 0 THEN @ + d ELSE @,
                         !.textLengthApplied = TRUE]
         IN  IF ~cr.addressable
             THEN SpreadCharacters(res, Tail(order), d, spacingAndGlyphs, shift,
                                   secondTextLengthApplied)
             ELSE SpreadCharacters(
                     [res EXCEPT ![k] = moved], Tail(order), d, spacingAndGlyphs,
                     IF ~(cr.textLengthApplied /\ secondTextLengthApplied) /\ ~last
                     THEN shift + d ELSE shift,
                     cr.textLengthApplied)

\* The characters the final shift may reach: those after the run up to the
\* next anchored chunk, and those from the run's first character back to the
\* start of its anchored chunk.
RECURSIVE FollowingCharacters(_, _, _)
FollowingCharacters(res, k, n) ==
    IF k >= n \/ res[k].anchored_chunk THEN {}
    ELSE {k} \cup FollowingCharacters(res, k + 1, n)

RECURSIVE PrecedingCharacters(_, _)
PrecedingCharacters(res, k) ==
    IF k < 0 THEN {}
    ELSE IF res[k].anchored_chunk THEN {k}
    ELSE {k} \cup PrecedingCharacters(res, k - 1)

\* The body of "if (!textLength().isAuto)" for the run that holds i..j-1.
ApplyTextLengthBranch(res, n, run, i, j, resolvedChildren) ==
    LET e == TextLengthExtent(res, i, j, i, [a |-> 0, b |-> 0, n |-> 0])
        count == e.n + resolvedChildren - (IF run.spacingAndGlyphs THEN 0 ELSE 1)
        delta == run.customValue - (e.b - e.a)
        d == delta \div count
        order == VisualToLogical(res, i..(j - 1))
        spread == SpreadCharacters(res, order, d, run.spacingAndGlyphs, 0, FALSE)
        lastVisualValue == res[order[Len(order)]].visualIndex
        reached == {k \in FollowingCharacters(res, j, n) \cup PrecedingCharacters(res, i) :
                       res[k].visualIndex > lastVisualValue}
    IN  [k \in DOMAIN res |->
            IF k \in reached
            THEN [spread.result[k] EXCEPT !.finalPosition = @ + spread.shift]
            ELSE spread.result[k]]

\* A run that spreads its characters whether or not it has a textLength.
ApplyTextLengthAlways(st, n, run, i, j, resolvedChildren) ==
    [result |-> ApplyTextLengthBranch(st.result, n, run, i, j, resolvedChildren),
     resolved |-> st.resolved + 1,
     currentIndex |-> j]

\* applyTextLength for one run after its children: st holds result and the
\* caller's resolvedDescendentNodes; the run ends by setting currentIndex.
ApplyTextLengthRun(st, n, run, i, j, resolvedChildren) ==
    IF ~run.isAuto
    THEN [result |-> ApplyTextLengthBranch(st.result, n, run, i, j, resolvedChildren),
          resolved |-> st.resolved + 1,
          currentIndex |-> j]
    ELSE [result |-> st.result, resolved |-> st.resolved, currentIndex |-> j]

AutoRun(numChars) ==
    [numChars |-> numChars, isAuto |-> TRUE, customValue |-> 0,
     spacingAndGlyphs |-> FALSE]

Runs ==
    {AutoRun(c) : c \in 1..MaxRunChars}
        \cup [numChars : 1..MaxRunChars, isAuto : {FALSE},
              customValue : {2 * GlyphAdvance, 4 * GlyphAdvance},
              spacingAndGlyphs : BOOLEAN]

\* numChars(true) of the root.
TotalChars(tree) ==
    IF tree.children = <<>> THEN tree.root.numChars
    ELSE SumSeq([k \in DOMAIN tree.children |-> tree.children[k].numChars])

\* The text before step 5: one line of glyphs from position 0, one anchored
\* chunk.
TextLengthResult(n) ==
    [i \in 0..n-1 |-> [CharacterResult EXCEPT !.finalPosition = GlyphAdvance * i,
                                               !.cssPosition = GlyphAdvance * i,
                                               !.advance = GlyphAdvance,
                                               !.visualIndex = i,
                                               !.anchored_chunk = (i = 0)]]

\* The root carries a textLength of its own only over children that have
\* none.
InitTextLength ==
    /\ pc = "applyTextLength"
    /\ \E root \in Runs, children \in SeqsUpTo(Runs, MaxRuns) :
          /\ root.isAuto \/ \A k \in DOMAIN children : children[k].isAuto
          /\ children # <<>> => root.numChars = 1
          /\ input = [root |-> root, children |-> children]
    /\ result = TextLengthResult(TotalChars(input))
    /\ lineBoxes = <<>>
    /\ eng = [child |-> 0, currentIndex |-> 0, resolvedChildren |-> 0,
              resolved |-> 0]
    /\ ret = "none"

\* The recursive call for the next child of the root.
ApplyTextLengthChild ==
    /\ pc = "applyTextLength"
    /\ eng.child < Len(input.children)
    /\ \/ input.children[eng.child + 1].isAuto
       \/ VisualToLogical(result, eng.currentIndex..(eng.currentIndex
                 + input.children[eng.child + 1].numChars - 1)) # <<>>
    /\ LET run == input.children[eng.child + 1]
           o == ApplyTextLengthRun(
                   [result |-> result, resolved |-> eng.resolvedChildren],
                   TotalChars(input), run, eng.currentIndex,
                   eng.currentIndex + run.numChars, 0)
       IN  /\ result' = o.result
           /\ eng' = [eng EXCEPT !.child = @ + 1,
                                 !.currentIndex = o.currentIndex,
                                 !.resolvedChildren = o.resolved]
    /\ UNCHANGED <<pc, input, lineBoxes, ret>>

\* The root after its children.
ApplyTextLengthRoot ==
    /\ pc = "applyTextLength"
    /\ eng.child = Len(input.children)
    /\ LET o == ApplyTextLengthRun(
                   [result |-> result, resolved |-> eng.resolved],
                   TotalChars(input), input.root, 0, TotalChars(input),
                   eng.resolvedChildren)
       IN  /\ result' = o.result
           /\ eng' = [eng EXCEPT !.currentIndex = o.currentIndex,
                                 !.resolved = o.resolved]
    /\ pc' = "returned"
    /\ UNCHANGED <<input, lineBoxes, ret>>

NextTextLength == ApplyTextLengthChild \/ ApplyTextLengthRoot

SpecTextLength == InitTextLength /\ [][NextTextLength]_vars

AllRunsAuto ==
    /\ input.root.isAuto
    /\ \A k \in DOMAIN input.children : input.children[k].isAuto

\* The characters of the runs applyTextLength has finished.
CharsOfFinishedRuns ==
    IF pc = "returned" THEN TotalChars(input)
    ELSE SumSeq([k \in 1..eng.child |-> input.children[k].numChars])

\* C9: when every run has textLength auto, applyTextLength changes no field
\* of any character and resolves no node; all it does is advance
\* currentIndex past the characters of each run it finishes.
C9_AutoChangesNothing ==
    AllRunsAuto =>
        /\ result = TextLengthResult(TotalChars(input))
        /\ eng.resolved = 0 /\ eng.resolvedChildren = 0
        /\ eng.currentIndex = CharsOfFinishedRuns

\* applyTextLength has returned from a root with two children, all auto.
C9_Witness ==
    /\ pc = "returned"
    /\ AllRunsAuto
    /\ Len(input.children) = 2
    /\ eng.currentIndex = TotalChars(input)
    /\ eng.currentIndex >= 3

----------------------------------------------------------------------------
(* relayout run twice on one text: the baseline alignment that             *)
(* computeFontMetrics ends with, for a tree of a single run, and the       *)
(* position adjustments that follow it when inline-size is auto and there  *)
(* are no shapes.  Positions here are on the block axis.  relayout builds  *)
(* result anew on every pass, so both passes start from the same           *)
(* line-broken text.                                                       *)

MaxMetricChars == 2
MaxBoxHeight == 2
MaxStackValue == 3

\* The loop "height = qMax(height, result[k].boundingBox.height())".
RECURSIVE MaxBoxHeightFrom(_, _, _, _)
MaxBoxHeightFrom(height, heights, k, j) ==
    IF k >= j THEN height
    ELSE MaxBoxHeightFrom(Max(height, heights[k]), heights, k + 1, j)

\* The shift of the run.  "qreal height;" is declared without a value, so
\* the loop starts from whatever the stack holds: stackValue.
BaselineShift(in, stackValue) ==
    IF in.baselineAdjust = "BaselineTextTop"
    THEN in.baselineTop + MaxBoxHeightFrom(stackValue, in.heights, 0, in.n)
    ELSE IF in.baselineAdjust = "BaselineTextBottom"
    THEN in.baselineBottom
    ELSE 0 - in.offset

\* The end of computeFontMetrics: every character of the run is shifted.
ComputeFontMetrics(res, in, stackValue) ==
    [k \in DOMAIN res |->
        [res[k] EXCEPT !.cssPosition = @ + BaselineShift(in, stackValue),
                       !.finalPosition = res[k].cssPosition
                                            + BaselineShift(in, stackValue)]]

\* The text of the run after line breaking: one line at block position 0.
LineBrokenText(n) ==
    [k \in 0..n-1 |-> [CharacterResult EXCEPT !.visualIndex = k,
                                               !.anchored_chunk = (k = 0)]]

\* Step 4 for a text without dx, dy or rotate.
AdjustPositionsDxDy(res) ==
    [k \in DOMAIN res |->
        IF res[k].addressable
        THEN [res[k] EXCEPT !.finalPosition = res[k].cssPosition]
        ELSE res[k]]

\* resolvedTransforms of a text without y attributes: relayout gives the
\* first entry yPos = 0.0 and the others none.
ResolvedYPos(n) == [k \in 1..n |-> IF k = 1 THEN <<0>> ELSE <<>>]

\* What relayout does to result after line breaking.  Step 5 finds no
\* textLength and step 7 moves nothing on the block axis.
LayoutAfterLineBreaking(in, stackValue) ==
    LET metrics == ComputeFontMetrics(LineBrokenText(in.n), in, stackValue)
    IN  IF in.inlineSizeAuto
        THEN AdjustPositionsXY(AdjustPositionsDxDy(metrics),
                               ResolvedYPos(in.n), 0, 0)
        ELSE metrics

InitRelayout ==
    /\ pc = "firstPass"
    /\ \E n \in 1..MaxMetricChars :
          \E heights \in [0..n-1 -> 1..MaxBoxHeight],
             baselineAdjust \in {"BaselineAlphabetic", "BaselineTextTop",
                                 "BaselineTextBottom"},
             offset \in {0, 1}, lineTop \in 1..MaxBoxHeight,
             inlineSizeAuto \in BOOLEAN :
             input = [n |-> n, heights |-> heights,
                      inlineSizeAuto |-> inlineSizeAuto,
                      baselineAdjust |-> baselineAdjust, offset |-> offset,
                      baselineTop |-> 0 - lineTop, baselineBottom |-> 1]
    /\ result = LineBrokenText(input.n)
    /\ lineBoxes = <<>>
    /\ eng = [first |-> <<>>]
    /\ ret = "none"

RelayoutFirstPass ==
    /\ pc = "firstPass"
    /\ \E stackValue \in 0..MaxStackValue :
          /\ result' = LayoutAfterLineBreaking(input, stackValue)
          /\ eng' = [first |-> result']
    /\ pc' = "secondPass"
    /\ UNCHANGED <<input, lineBoxes, ret>>

RelayoutSecondPass ==
    /\ pc = "secondPass"
    /\ \E stackValue \in 0..MaxStackValue :
          result' = LayoutAfterLineBreaking(input, stackValue)
    /\ pc' = "done"
    /\ UNCHANGED <<input, lineBoxes, eng, ret>>

NextRelayout == RelayoutFirstPass \/ RelayoutSecondPass

SpecRelayout == InitRelayout /\ [][NextRelayout]_vars

\* C4 as stated: two passes over the same text, properties and resolution
\* end with the same CharacterResult vector.
C4_AsStated ==
    pc = "done" => result = eng.first

\* The passes agree for every alignment baseline but text-top.
C4_SameUnlessTextTop ==
    (pc = "done" /\ input.baselineAdjust # "BaselineTextTop") => result = eng.first

----------------------------------------------------------------------------
(* The classification the fix-up pass leaves on clusters (SpecCluster).    *)

\* The characters the fix-up pass finds to lead a cluster.
Leaders == {i \in DOMAIN result : IsClusterLeader(result[i])}

\* firstCluster while the pass is at character i: the nearest leader at or
\* before i, and character 0 when there is none.
FirstClusterAt(i) ==
    IF \E l \in Leaders : l <= i
    THEN CHOOSE l \in Leaders : l <= i /\ \A m \in Leaders : m <= i => m <= l
    ELSE 0

\* The characters the pass folds into character h, in logical order.
FoldedInto(h) ==
    SortedSeq({i \in DOMAIN result : i \notin Leaders /\ FirstClusterAt(i) = h})

\* The first value of a sequence that is not "NoChange", if any.
RECURSIVE FirstChange(_)
FirstChange(edges) ==
    IF edges = <<>> THEN "NoChange"
    ELSE IF Head(edges) # "NoChange" THEN Head(edges)
    ELSE FirstChange(Tail(edges))

\* C11 as stated: every middle character has the classification of the
\* nearest preceding cluster leader, and the leader of the cluster of a
\* character classified HardBreak carries HardBreak.
C11_AsStated ==
    pc = "fixedUp" =>
        \A i \in DOMAIN result :
            /\ (IsClusterFollower(result[i]) /\ \E l \in Leaders : l < i) =>
                  LET l == FirstClusterAt(i)
                  IN  /\ result[i].breakType = result[l].breakType
                      /\ result[i].lineStart = result[l].lineStart
                      /\ result[i].lineEnd = result[l].lineEnd
            /\ input.kinds[i].breakType = "HardBreak" =>
                  \E l \in Leaders :
                      l = FirstClusterAt(i) /\ result[l].breakType = "HardBreak"

\* C11: the classification flows from the middle characters to the character
\* they are folded into (the nearest leader at or before them, character 0
\* when none precedes).  That character ends with HardBreak if it or any
\* character folded into it was classified HardBreak, else with the
\* breakType of the last character folded into it; its lineStart and
\* lineEnd are the first that are not NoChange among its own and those of
\* the characters folded into it.  Every other character keeps the
\* classification it was given.
C11_LeaderCarriesCluster ==
    pc = "fixedUp" =>
        \A h \in DOMAIN result :
            LET folded == FoldedInto(h)
                own == input.kinds[h]
                given == <<own>> \o [k \in DOMAIN folded |-> input.kinds[folded[k]]]
            IN  IF h \in Leaders \/ h = 0
                THEN /\ result[h].breakType =
                           IF \E k \in DOMAIN given : given[k].breakType = "HardBreak"
                           THEN "HardBreak"
                           ELSE given[Len(given)].breakType
                     /\ result[h].lineStart =
                           FirstChange([k \in DOMAIN given |-> given[k].lineStart])
                     /\ result[h].lineEnd =
                           FirstChange([k \in DOMAIN given |-> given[k].lineEnd])
                ELSE /\ result[h].breakType = own.breakType
                     /\ result[h].lineStart = own.lineStart
                     /\ result[h].lineEnd = own.lineEnd

\* A leader classified HardBreak has had a character without a break folded
\* into it and still carries the HardBreak.
C11_Witness ==
    /\ pc = "fixedUp"
    /\ \E l \in Leaders :
          /\ input.kinds[l].breakType = "HardBreak"
          /\ \E i \in Range(FoldedInto(l)) : input.kinds[i].breakType = "NoBreak"
          /\ result[l].breakType = "HardBreak"

----------------------------------------------------------------------------
(* Shapes that give flowTextInShapes nothing to flow into (Spec).          *)

\* C13 as stated: flowTextInShapes returns without an out-of-range access,
\* also for an empty shape list, and every character it found no place for
\* is hidden.
C13_AsStated ==
    (pc = "returned" /\ input.engine = "flowTextInShapes") =>
        /\ ret = "lineBoxes"
        /\ \A i \in AddressableOnEntry : Occurrences(i) = 0 => result[i].hidden

\* With at least one shape the function returns its line boxes and every
\* character it found no place for is hidden.
C13_HiddenWhenShapesGiven ==
    (pc = "returned" /\ input.engine = "flowTextInShapes" /\ input.shapes # <<>>) =>
        /\ ret = "lineBoxes"
        /\ \A i \in AddressableOnEntry : Occurrences(i) = 0 => result[i].hidden

----------------------------------------------------------------------------
(* relayout as the shape calls it: what it caches from one pass to the     *)
(* next.  input.text is the text the run tree holds, result is d->result   *)
(* and lineBoxes is d->lineBoxes; eng counts the passes and records which  *)
(* pass wrote each of the two and which stages the last pass ran.  The     *)
(* text has inline-size auto, no shapes and no text path.                  *)

MaxPassChars == 2
MaxPasses == 3

\* The loop of breakLines over keys from position k on.
RECURSIVE BreakLinesLoop(_, _, _, _)
BreakLinesLoop(s, keys, k, in) ==
    IF k > Len(keys) THEN s
    ELSE BreakLinesLoop(BreakLinesIteration(s, keys[k], k < Len(keys), in),
                        keys, k + 1, in)

\* breakLines(properties, logicalToVisual, result, startPos): result as it
\* leaves it and the line boxes it returns.
BreakLines(in, logicalToVisual, res) ==
    BreakLinesLoop(BreakLinesLocals(in) @@ [result |-> res, lineBoxes |-> <<>>],
                   Keys(logicalToVisual), 1, in)

\* The texts of the run tree: letters and preserved line feeds.
PassChars ==
    {c \in TextChars : ~c.collapse /\ c.kind.breakType \in {"NoBreak", "HardBreak"}}

\* The stages of relayout after the glyph loop and the fix-up pass.
LaterStages ==
    {"resolveTransforms", "breakLines", "computeFontMetrics", "applyAnchoring",
     "applyTextPath"}

InitPass ==
    /\ pc = "idle"
    /\ input = [text |-> <<>>]
    /\ result = <<>>
    /\ lineBoxes = <<>>
    /\ eng = [pass |-> 0, resultPass |-> 0, lineBoxesPass |-> 0,
              stages |-> {}, outOfRange |-> FALSE]
    /\ ret = "none"

\* shapeChanged with ContentChanged, StrokeChanged or BackgroundChanged,
\* resetTextShape, or paintComponent at a new resolution: relayout starts.
\* It collects the text, shapes it and asks raqm for the glyphs; raqm
\* answers with an array or with NULL, and on NULL relayout returns.
RelayoutShape ==
    /\ pc = "idle"
    /\ eng.pass < MaxPasses
    /\ \E text \in SeqsUpTo(PassChars, MaxPassChars) :
          input' = [text |-> text]
    /\ eng' = [eng EXCEPT !.pass = @ + 1, !.stages = {}, !.outOfRange = FALSE]
    /\ \E glyphs \in {"NULL", "array"} :
          pc' = IF glyphs = "NULL" THEN "idle" ELSE "glyphs"
    /\ UNCHANGED <<result, lineBoxes, ret>>

\* The rest of relayout for a text with characters.
RelayoutLayout ==
    /\ pc = "glyphs"
    /\ input.text # <<>>
    /\ LET shaped == ShapeText(input.text, FALSE)
           o == BreakLines(Properties(TRUE, 0), shaped.logicalToVisual, shaped.result)
       IN  /\ lineBoxes' = o.lineBoxes
           /\ result' = o.result
    /\ eng' = [eng EXCEPT !.stages = LaterStages, !.resultPass = eng.pass,
                          !.lineBoxesPass = eng.pass]
    /\ pc' = "idle"
    /\ UNCHANGED <<input, ret>>

\* The rest of relayout for a text without characters: resolvedTransforms
\* is empty and "resolvedTransforms[0].absolutePos()" reads its first
\* element.  The read either stops the program or yields some start
\* position, with which the later stages run over the empty result.
RelayoutLayoutEmpty ==
    /\ pc = "glyphs"
    /\ input.text = <<>>
    /\ \/ /\ pc' = "crashed"
          /\ eng' = [eng EXCEPT !.stages = {"resolveTransforms"},
                                !.outOfRange = TRUE]
          /\ UNCHANGED <<result, lineBoxes>>
       \/ /\ pc' = "idle"
          /\ lineBoxes' = BreakLines(Properties(TRUE, 0), <<>>, <<>>).lineBoxes
          /\ result' = <<>>
          /\ eng' = [eng EXCEPT !.stages = LaterStages, !.outOfRange = TRUE,
                                !.resultPass = eng.pass,
                                !.lineBoxesPass = eng.pass]
    /\ UNCHANGED <<input, ret>>

NextPass == RelayoutShape \/ RelayoutLayout \/ RelayoutLayoutEmpty

SpecPass == InitPass /\ [][NextPass]_vars

\* relayout has been called and is not running.
RelayoutReturned == eng.pass > 0 /\ pc # "glyphs"

\* C12 as stated: a pass over a text of length zero runs no later stage,
\* reads no element of an empty vector and leaves the cached result and
\* line boxes empty.
C12_AsStated ==
    (RelayoutReturned /\ input.text = <<>>) =>
        /\ eng.stages = {}
        /\ ~eng.outOfRange
        /\ result = <<>>
        /\ lineBoxes = <<>>

\* C14 as stated: when relayout has returned, the cached result has one
\* entry per character of the text and it and the cached line boxes were
\* written by that pass.
C14_AsStated ==
    (RelayoutReturned /\ pc = "idle") =>
        /\ DOMAIN result = 0 .. Len(input.text) - 1
        /\ eng.resultPass = eng.pass
        /\ eng.lineBoxesPass = eng.pass

\* A pass that ran to its end replaced both the result and the line boxes.
C14_FreshAfterFullPass ==
    (RelayoutReturned /\ pc = "idle" /\ eng.stages = LaterStages) =>
        /\ DOMAIN result = 0 .. Len(input.text) - 1
        /\ eng.resultPass = eng.pass
        /\ eng.lineBoxesPass = eng.pass

----------------------------------------------------------------------------
(* breakLines with inline-size set: the decision at a break opportunity.   *)

\* The character the next iteration of the loop reads.
NextIndex == Keys(input.logicalToVisual)[eng.it + 1]

\* The indices a line lists, over its chunks.
RECURSIVE IndicesOfChunks(_)
IndicesOfChunks(chunks) ==
    IF chunks = <<>> THEN <<>>
    ELSE Head(chunks).chunkIndices \o IndicesOfChunks(Tail(chunks))

\* The summed advance of the characters of word that do not collapse or
\* hang at a line end.
RECURSIVE AdvanceOfWord(_)
AdvanceOfWord(word) ==
    IF word = <<>> THEN 0
    ELSE (IF result[Head(word)].lineEnd = "NoChange"
          THEN result[Head(word)].advance ELSE 0) + AdvanceOfWord(Tail(word))

\* An iteration of breakLines, inline-size set, over an addressable
\* character that is a break opportunity or the end of the text.
AtBreakOpportunity ==
    /\ pc = "breakLines"
    /\ ~input.props.isAuto
    /\ eng.it < Len(Keys(input.logicalToVisual))
    /\ eng'.it = eng.it + 1
    /\ result[NextIndex].addressable
    /\ \/ result[NextIndex].breakType # "NoBreak"
       \/ eng.it + 1 = Len(Keys(input.logicalToVisual))

\* The line so far plus the pending word, without the characters that
\* collapse at the line end, is longer than inline-size by more than the
\* rounding tolerance.
PendingWordExceeds ==
    QRound(Abs(eng.currentPos - input.props.startPos
               + AdvanceOfWord(Append(eng.wordIndices, NextIndex)))
           - input.props.customValue) > 0

\* The decision of one iteration, as the sentence states it: the line the
\* iteration found is, afterwards, the line at position Len(lineBoxes) + 1
\* of the appended lines followed by the current line.
DecisionAsStated ==
    LET pending == Append(eng.wordIndices, NextIndex)
        before == IndicesOfChunks(eng.currentLine.chunks)
        after == IndicesOfChunks(
                    (lineBoxes' \o <<eng'.currentLine>>)[Len(lineBoxes) + 1].chunks)
    IN  IF PendingWordExceeds
        THEN before # <<>> => after = before
        ELSE after = before \o pending

\* C15 as stated: at every break opportunity or end of text the pending
\* word, measured without its line-end collapsible characters, goes to the
\* current line when it fits and to the next line, after the non-empty
\* current line was finalized, when it does not.
C15_AsStated == [][AtBreakOpportunity => DecisionAsStated]_vars

\* The pending word begins with a character that collapses or hangs at a
\* line end.  On a line that already holds characters the iteration leaves
\* wordAdvance at the advance of the word placed before; on an empty line it
\* counts the character's advance.
WordStartsAtLineEndCharacter ==
    result[Head(Append(eng.wordIndices, NextIndex))].lineEnd # "NoChange"

\* For every other word the decision is the stated one.
C15_DecisionWhenMeasured ==
    [][(AtBreakOpportunity /\ ~WordStartsAtLineEndCharacter) => DecisionAsStated]_vars

----------------------------------------------------------------------------
(* breakLines with overflow-wrap: a word longer than inline-size.          *)

RECURSIVE SumOfAdvances(_)
SumOfAdvances(word) ==
    IF word = <<>> THEN 0
    ELSE result[Head(word)].advance + SumOfAdvances(Tail(word))

RECURSIVE Flatten(_)
Flatten(seqs) == IF seqs = <<>> THEN <<>> ELSE Head(seqs) \o Flatten(Tail(seqs))

\* An iteration that meets the end of a word whose advance, without its
\* line-end collapsible characters, exceeds inline-size, overflow-wrap set.
SplitsWord ==
    /\ AtBreakOpportunity
    /\ input.overflowWrap
    /\ AdvanceOfWord(Append(eng.wordIndices, NextIndex)) > input.props.customValue

\* The lines the word went to, as lists of indices: the lines after the one
\* the iteration found holding characters, the current line included unless
\* the iteration appended it.
WordLines ==
    LET from == IF LineIsEmpty(eng.currentLine) THEN Len(lineBoxes) + 1
                ELSE Len(lineBoxes) + 2
        appended == \/ result[NextIndex].breakType = "HardBreak"
                    \/ eng.it + 1 = Len(Keys(input.logicalToVisual))
        lines == IF appended THEN lineBoxes' ELSE lineBoxes' \o <<eng'.currentLine>>
    IN  [k \in 1 .. Len(lines) - from + 1 |->
            IndicesOfChunks(lines[from + k - 1].chunks)]

\* Every character of the word is on one of its lines, once, in logical
\* order, and no line could have taken the character that follows it.
PlacedGreedily ==
    /\ Flatten(WordLines) = Append(eng.wordIndices, NextIndex)
    /\ \A k \in DOMAIN WordLines :
          LET rest == Flatten(SubSeq(WordLines, k + 1, Len(WordLines)))
          IN  rest # <<>> =>
                SumOfAdvances(WordLines[k]) + result[Head(rest)].advance
                    > input.props.customValue

----------------------------------------------------------------------------
(* The line boxes an engine returns, one by one.                           *)

\* C17 as stated: every line box returned lists at least one character in
\* one of its chunks, and no line box is in the list twice.
C17_AsStated ==
    Returned =>
        /\ \A l \in DOMAIN lineBoxes : IndicesOfChunks(lineBoxes[l].chunks) # <<>>
        /\ \A l, m \in DOMAIN lineBoxes : lineBoxes[l] = lineBoxes[m] => l = m

\* The line boxes that list characters list different characters, so none
\* of them is the same line appended twice.
C17_NoListedLineTwice ==
    Returned =>
        \A l, m \in DOMAIN lineBoxes :
            (l # m /\ IndicesOfChunks(lineBoxes[l].chunks) # <<>>) =>
                lineBoxes[l] # lineBoxes[m]

----------------------------------------------------------------------------
(* finalizeLine on a justified line of text in a shape: one chunk, its     *)
(* characters added by addWordToLine, then the line finalized.             *)

MaxJustifyChars == 3

\* What the chunk is longer than the bounding box of its characters, in
\* half pixels: a multiple of every count of opportunities that occurs.
JustifySlack == 12

\* A character of the line: how it behaves at the line edges and whether
\* justification may open space before and after it.
JustifyChars ==
    { [kind |-> [breakType |-> "NoBreak", lineEnd |-> e[1], lineStart |-> e[2]],
       collapse |-> FALSE, advance |-> 2,
       justifyBefore |-> b, justifyAfter |-> a] :
         e \in {<<"NoChange", "NoChange">>, <<"Collapse", "Collapse">>,
                <<"ForceHang", "NoChange">>},
         b \in BOOLEAN, a \in BOOLEAN }

\* result as step 2 of relayout leaves it for the text, with the
\* justification opportunities of its characters.
JustifyResult(text) ==
    LET shaped == ShapeText([k \in DOMAIN text |->
                                [kind |-> text[k].kind, collapse |-> FALSE,
                                 advance |-> text[k].advance]], FALSE).result
    IN  [i \in DOMAIN shaped |->
            [shaped[i] EXCEPT !.justifyBefore = text[i + 1].justifyBefore,
                              !.justifyAfter = text[i + 1].justifyAfter]]

\* The line flowTextInShapes starts for the word: one chunk from 0 to
\* length, justified, and the whole text pending as the word.
JustifyLocals(text, length) ==
    [FlowLocals(<<>>) EXCEPT
        !.currentLine = [LineBoxFromWidths(<<QLineF(0, length)>>, 0) EXCEPT
                            !.firstLine = TRUE, !.justifyLine = TRUE],
        !.wordIndices = [k \in DOMAIN text |-> k - 1]]

\* The bounding box addWordToLine gives the chunk does not depend on the
\* chunk's length.
WidthOfText(text) ==
    RectWidth(AddCharactersOfWord(
                 JustifyLocals(text, 0) @@ [result |-> JustifyResult(text)],
                 TRUE).boundingBox)

InitJustify ==
    /\ \E n \in 1..MaxJustifyChars : \E text \in [1..n -> JustifyChars] :
          input = [text |-> text, length |-> WidthOfText(text) + JustifySlack]
    /\ pc = "addWordToLine"
    /\ result = JustifyResult(input.text)
    /\ lineBoxes = <<>>
    /\ eng = JustifyLocals(input.text, input.length)
    /\ ret = "none"

JustifyAddWord ==
    /\ pc = "addWordToLine"
    /\ LET s == AddWordToLine(eng @@ [result |-> result], TRUE)
       IN  /\ result' = s.result
           /\ eng' = [f \in DOMAIN eng |-> s[f]]
    /\ pc' = "finalizeLine"
    /\ UNCHANGED <<input, lineBoxes, ret>>

JustifyFinalizeLine ==
    /\ pc = "finalizeLine"
    /\ LET s == FinalizeLine(eng @@ [result |-> result], "AnchorStart", TRUE,
                             TRUE, TRUE)
       IN  /\ result' = s.result
           /\ eng' = [f \in DOMAIN eng |-> s[f]]
    /\ pc' = "finalized"
    /\ UNCHANGED <<input, lineBoxes, ret>>

NextJustify == JustifyAddWord \/ JustifyFinalizeLine

SpecJustify == InitJustify /\ [][NextJustify]_vars

\* The chunk of the line and its characters in visual order.
JustifiedChunk == eng.currentLine.chunks[1]
JustifiedOrder == VisualToLogicalValues(result, JustifiedChunk.chunkIndices)

\* The characters of the chunk that are visible on the line.
VisibleInChunk ==
    SelectSeq(JustifiedOrder, LAMBDA j : result[j].addressable /\ ~result[j].isHanging)

\* The space finalizeLine inserted between the first and the last visible
\* character: their distance less the advances that lie between them.
InsertedSpace ==
    LET v == VisibleInChunk
    IN  result[v[Len(v)]].finalPosition - result[v[1]].finalPosition
          - SumOfAdvances(SubSeq(v, 1, Len(v) - 1))

\* A justified chunk with an opportunity has been finalized.
JustifiedWithOpportunity ==
    /\ pc = "finalized"
    /\ VisibleInChunk # <<>>
    /\ JustificationCount(result, JustifiedOrder) > 0

\* C18 as stated: the offsets inserted between the first and the last
\* visible character of a justified chunk with an opportunity sum to the
\* chunk's length less the extent of its bounding box.
C18_AsStated ==
    JustifiedWithOpportunity =>
        InsertedSpace = LineLength(JustifiedChunk.length)
                            - RectWidth(JustifiedChunk.boundingBox)

\* When the first and the last character of the chunk are themselves
\* visible, the inserted offsets sum to the leftover space.
C18_LeftoverWhenEdgesVisible ==
    (JustifiedWithOpportunity
        /\ VisibleInChunk[1] = JustifiedOrder[1]
        /\ VisibleInChunk[Len(VisibleInChunk)] = JustifiedOrder[Len(JustifiedOrder)]) =>
        InsertedSpace = LineLength(JustifiedChunk.length)
                            - RectWidth(JustifiedChunk.boundingBox)

----------------------------------------------------------------------------
(* applyAnchoring over a text with several anchored chunks and with        *)
(* characters that are not addressable.                                    *)

\* The characters of the texts: a letter and a preserved space that may
\* end a line, each with a glyph that loads or fails to load.
GroupChars ==
    { [kind |-> k, collapse |-> FALSE, advance |-> 2, loadOk |-> ok] :
        k \in { [breakType |-> "NoBreak", lineEnd |-> "NoChange",
                 lineStart |-> "NoChange"],
                [breakType |-> "SoftBreak", lineEnd |-> "Collapse",
                 lineStart |-> "Collapse"] },
        ok \in BOOLEAN }

\* The glyph loop over a text that shapes to one glyph per character, some
\* of which FreeType fails to load.
RECURSIVE ShapeGlyphsLoading(_, _, _)
ShapeGlyphsLoading(o, text, i) ==
    IF i >= Len(text) THEN o
    ELSE ShapeGlyphsLoading(
            GlyphIteration(o.result, o.logicalToVisual,
                           [c \in 0..Len(text)-1 |-> FALSE],
                           [cluster |-> i, loadOk |-> text[i + 1].loadOk,
                            advance |-> text[i + 1].advance],
                           i),
            text, i + 1)

\* Step 4 for a text without dx: finalPosition = cssPosition, and a
\* character with an x of its own starts a chunk.
AdjustPositionsDxDyChunks(res, xPos) ==
    [k \in DOMAIN res |->
        IF res[k].addressable
        THEN [res[k] EXCEPT !.finalPosition = res[k].cssPosition,
                            !.anchored_chunk = IF xPos[k + 1] # <<>> THEN TRUE ELSE @]
        ELSE res[k]]

\* result as relayout hands it to applyAnchoring: steps 1 to 6 over the
\* text, inline-size auto, no shapes.
ResultBeforeAnchoring(text, xPos, direction, anchor) ==
    LET n == Len(text)
        before == ResultBeforeGlyphs(n, [c \in 0..n-1 |-> text[c + 1].kind])
        o == ShapeGlyphsLoading(
                [result |-> [c \in 0..n-1 |->
                                [before[c] EXCEPT !.direction = direction,
                                                  !.anchor = anchor]],
                 logicalToVisual |-> <<>>],
                text, 0)
        broken == BreakLines([Properties(TRUE, 0) EXCEPT !.startPos = xPos[1][1]],
                             o.logicalToVisual, FixUpClusters(o.result, n))
    IN  AdjustPositionsXY(AdjustPositionsDxDyChunks(broken.result, xPos),
                          xPos, 0, 0)

InitGroups ==
    /\ pc = "applyAnchoring"
    /\ \E n \in 1..MaxChunkChars, direction \in Directions, anchor \in TextAnchors,
          x \in AnchorPoints :
          \E text \in [1..n -> GroupChars], second \in 0..n-1, x2 \in AnchorPoints :
             LET xPos == [k \in 1..n |->
                            IF k = 1 THEN <<x>>
                            ELSE IF k = second + 1 THEN <<x2>>
                            ELSE <<>>]
             IN  input = [n |-> n, text |-> text, xPos |-> xPos,
                          direction |-> direction, anchor |-> anchor,
                          result |-> ResultBeforeAnchoring(text, xPos, direction,
                                                           anchor)]
    /\ result = input.result
    /\ lineBoxes = <<>>
    /\ eng = [step |-> 6]
    /\ ret = "none"

ApplyAnchoringGroups ==
    /\ pc = "applyAnchoring"
    /\ result' = ApplyAnchoring(result, input.n, 0)
    /\ pc' = "anchored"
    /\ eng' = [step |-> 7]
    /\ UNCHANGED <<input, lineBoxes, ret>>

SpecGroups == InitGroups /\ [][ApplyAnchoringGroups]_vars

\* The group of character j: it begins at the last anchored_chunk character
\* at or before j.
GroupStart(j) ==
    CHOOSE s \in 0..j : /\ input.result[s].anchored_chunk
                        /\ \A t \in s+1..j : ~input.result[t].anchored_chunk
GroupOf(s) == {j \in 0..input.n-1 : GroupStart(j) = s}
MeasuredIn(s) == {j \in GroupOf(s) : input.result[j].addressable}

\* The extent of a group before the shift, and the shift a character got.
GroupMin(s) ==
    LET lo(j) == Min(input.result[j].finalPosition,
                     input.result[j].finalPosition + input.result[j].advance)
    IN  lo(CHOOSE j \in MeasuredIn(s) : \A k \in MeasuredIn(s) : lo(j) <= lo(k))
GroupMax(s) ==
    LET hi(j) == Max(input.result[j].finalPosition,
                     input.result[j].finalPosition + input.result[j].advance)
    IN  hi(CHOOSE j \in MeasuredIn(s) : \A k \in MeasuredIn(s) : hi(j) >= hi(k))
ShiftOf(j) == result[j].finalPosition - input.result[j].finalPosition

\* The edge of the group that the anchor names.
AnchoredEdge(s) ==
    LET rtl == input.direction = "DirectionRightToLeft"
    IN  IF (input.anchor = "AnchorStart" /\ ~rtl) \/ (input.anchor = "AnchorEnd" /\ rtl)
        THEN GroupMin(s)
        ELSE IF input.anchor = "AnchorMiddle"
        THEN (GroupMin(s) + GroupMax(s)) \div 2
        ELSE GroupMax(s)

\* C19 as stated: every scan of applyAnchoring ends past the character it
\* began at, so the loop terminates; afterwards the characters of a group,
\* which begins at an anchored_chunk character and ends before the next
\* one, have all been moved by the same shift, and the shift has put the
\* edge the anchor names (the minimum of the extents for start in
\* left-to-right and end in right-to-left text, the maximum for end in
\* left-to-right and start in right-to-left text, the midpoint for middle)
\* at the position the group's first character had.
C19_AsStated ==
    /\ pc = "applyAnchoring" =>
          \A start \in 0..input.n-1 :
              AnchoredChunkExtent(result, input.n, start, start, 0, 0).i > start
    /\ pc = "anchored" =>
          \A j \in 0..input.n-1 :
              LET s == GroupStart(j)
              IN  /\ ShiftOf(j) = ShiftOf(s)
                  /\ MeasuredIn(s) # {} =>
                        AnchoredEdge(s) + ShiftOf(s) = input.result[s].finalPosition

\* The same for the groups whose first character is addressable.
C19_GroupsStartingAddressable ==
    /\ pc = "applyAnchoring" =>
          \A start \in 0..input.n-1 :
              AnchoredChunkExtent(result, input.n, start, start, 0, 0).i > start
    /\ pc = "anchored" =>
          \A j \in 0..input.n-1 :
              LET s == GroupStart(j)
              IN  /\ ShiftOf(j) = ShiftOf(s)
                  /\ input.result[s].addressable =>
                        AnchoredEdge(s) + ShiftOf(s) = input.result[s].finalPosition

----------------------------------------------------------------------------
(* applyTextLength over a run with a textLength of its own, spacing only,  *)
(* among runs without one.  Some characters of the text were collapsed and *)
(* are not addressable, some start an anchored chunk.                      *)

MaxSpacingChars == 5
MaxSpacingRunChars == 3
MaxSpacingRuns == 3

\* textLength values: 9 px and 24 px, against glyphs 6 px wide.
SpacingLengths == {18, 48}

SpacingRuns ==
    {AutoRun(c) : c \in 1..MaxSpacingRunChars}
        \cup [numChars : 2..MaxSpacingRunChars, isAuto : {FALSE},
              customValue : SpacingLengths, spacingAndGlyphs : {FALSE}]

\* The text before step 5: the addressable characters on one line from
\* position 0, the others without glyph or position.
SpacingResult(chars) ==
    [i \in 0..Len(chars)-1 |->
        IF chars[i + 1].addressable
        THEN LET pos == GlyphAdvance
                          * Cardinality({k \in 1..i : chars[k].addressable})
             IN  [CharacterResult EXCEPT !.finalPosition = pos,
                                         !.cssPosition = pos,
                                         !.advance = GlyphAdvance,
                                         !.visualIndex = i,
                                         !.anchored_chunk = chars[i + 1].anchored_chunk]
        ELSE [CharacterResult EXCEPT !.addressable = FALSE,
                                     !.anchored_chunk = (i = 0)]]

\* One child of the root has a textLength; the first character of the text
\* starts a chunk, and so may any addressable character.
InitSpacing ==
    /\ pc = "applyTextLength"
    /\ \E children \in SeqsUpTo(SpacingRuns, MaxSpacingRuns) :
          /\ Cardinality({k \in DOMAIN children : ~children[k].isAuto}) = 1
          /\ SumSeq([k \in DOMAIN children |-> children[k].numChars]) <= MaxSpacingChars
          /\ \E chars \in [1..SumSeq([k \in DOMAIN children |-> children[k].numChars])
                              -> [addressable : BOOLEAN, anchored_chunk : BOOLEAN]] :
                /\ chars[1].anchored_chunk
                /\ \A k \in DOMAIN chars : chars[k].anchored_chunk =>
                                                (k = 1 \/ chars[k].addressable)
                /\ input = [root |-> AutoRun(Len(chars)), children |-> children,
                            chars |-> chars]
    /\ result = SpacingResult(input.chars)
    /\ lineBoxes = <<>>
    /\ eng = [child |-> 0, currentIndex |-> 0, resolvedChildren |-> 0,
              resolved |-> 0]
    /\ ret = "none"

\* The recursive call for a child with a textLength none of whose characters
\* has a glyph: visualToLogical is empty when its last key is read.  The
\* read fails an assertion, or yields a value that decides nothing since
\* shift is still zero.
ApplyTextLengthChildNoGlyphs ==
    /\ pc = "applyTextLength"
    /\ eng.child < Len(input.children)
    /\ ~input.children[eng.child + 1].isAuto
    /\ VisualToLogical(result, eng.currentIndex..(eng.currentIndex
              + input.children[eng.child + 1].numChars - 1)) = <<>>
    /\ \/ /\ pc' = "crashed"
          /\ UNCHANGED eng
       \/ /\ pc' = pc
          /\ eng' = [eng EXCEPT !.child = @ + 1,
                                !.currentIndex = @ + input.children[eng.child + 1].numChars,
                                !.resolvedChildren = @ + 1]
    /\ UNCHANGED <<input, result, lineBoxes, ret>>

NextSpacing == NextTextLength \/ ApplyTextLengthChildNoGlyphs

SpecSpacing == InitSpacing /\ [][NextSpacing]_vars

\* The run with the textLength, its characters, and those of them that are
\* addressable, in visual order.
SpacedRun == CHOOSE r \in DOMAIN input.children : ~input.children[r].isAuto
SpacedFrom == SumSeq([k \in 1..SpacedRun-1 |-> input.children[k].numChars])
SpacedTo == SpacedFrom + input.children[SpacedRun].numChars
SpacedChars ==
    SortedSeq({k \in SpacedFrom..SpacedTo-1 : SpacingResult(input.chars)[k].addressable})

\* The inline extent of the run's addressable characters in res.
ExtentOfRun(res) ==
    LET lo == CHOOSE x \in {res[k].finalPosition : k \in Range(SpacedChars)} :
                 \A k \in Range(SpacedChars) : x <= res[k].finalPosition
        hi == CHOOSE x \in {res[k].finalPosition + res[k].advance :
                                k \in Range(SpacedChars)} :
                 \A k \in Range(SpacedChars) : x >= res[k].finalPosition + res[k].advance
    IN  hi - lo

\* delta: the textLength less the extent the run had.
SpacingDelta ==
    input.children[SpacedRun].customValue - ExtentOfRun(SpacingResult(input.chars))

\* What applyTextLength moved character k by.
MovedBy(k) == result[k].finalPosition - SpacingResult(input.chars)[k].finalPosition

\* The characters after the run, before the next anchored_chunk character.
AfterRun == FollowingCharacters(SpacingResult(input.chars), SpacedTo, Len(input.chars))

\* The k-th character of the run was moved by k * delta / (n - 1), the run
\* is as long as its textLength, the addressable characters after it in its
\* chunk were moved by delta and those of later chunks were not moved.
SpreadAsStated ==
    /\ \A k \in DOMAIN SpacedChars :
          (Len(SpacedChars) - 1) * MovedBy(SpacedChars[k]) = (k - 1) * SpacingDelta
    /\ ExtentOfRun(result) = input.children[SpacedRun].customValue
    /\ \A k \in SpacedTo..Len(input.chars)-1 :
          result[k].addressable =>
              MovedBy(k) = IF k \in AfterRun THEN SpacingDelta ELSE 0

\* C20 as stated: for a run with a textLength, spacing only, no nested
\* textLength and at least two addressable characters, the characters are
\* spread as stated.
C20_AsStated ==
    (pc = "returned" /\ Len(SpacedChars) >= 2) => SpreadAsStated

\* The same for the runs whose first character is addressable.
C20_SpreadWhenFirstAddressable ==
    (pc = "returned" /\ Len(SpacedChars) >= 2 /\ SpacedChars[1] = SpacedFrom)
        => SpreadAsStated

----------------------------------------------------------------------------
(* resolveTransforms over a root run and its child runs.  A transformation *)
(* holds the optional xPos, yPos and rotate; "none" is the empty optional. *)

MaxTransformChars == 3
MaxLocalTransforms == 2

CharTransformation == [xPos |-> "none", yPos |-> "none", rotate |-> "none"]

\* An entry of a run's per-character array: a position or a rotation.
LocalTransformations ==
    { [CharTransformation EXCEPT !.xPos = "5"],
      [CharTransformation EXCEPT !.rotate = "r10"],
      [CharTransformation EXCEPT !.rotate = "r20"] }

\* CharTransformation::mergeInParentTransformation: what the transformation
\* has not set itself it takes from the parent's.
MergeInParentTransformation(t, parent) ==
    [f \in DOMAIN t |-> IF t[f] = "none" THEN parent[f] ELSE t[f]]

\* The first loop of resolveTransforms over the characters k..j-1 of a run
\* that is not on a text path; i counts the entries of local already used.
RECURSIVE ResolveLocal(_, _, _, _, _, _)
ResolveLocal(resolved, local, collapsedChars, k, j, i) ==
    IF k >= j THEN resolved
    ELSE IF collapsedChars[k]
    THEN ResolveLocal(resolved, local, collapsedChars, k + 1, j, i)
    ELSE IF i < Len(local)
    THEN ResolveLocal(
            [resolved EXCEPT ![k] = MergeInParentTransformation(local[i + 1], @)],
            local, collapsedChars, k + 1, j, i + 1)
    ELSE IF k > 0 /\ resolved[k - 1].rotate # "none"
    THEN ResolveLocal([resolved EXCEPT ![k].rotate = resolved[k - 1].rotate],
                      local, collapsedChars, k + 1, j, i)
    ELSE ResolveLocal(resolved, local, collapsedChars, k + 1, j, i)

\* The loop of a run on a text path, after its children (horizontal text):
\* xPos of the first character that is not collapsed becomes 0, yPos of all
\* of them is reset.
ResolveOnPath(resolved, collapsedChars, index, j) ==
    LET shown == {k \in index..(j - 1) : ~collapsedChars[k]}
    IN  [k \in DOMAIN resolved |->
            IF k \notin shown THEN resolved[k]
            ELSE [resolved[k] EXCEPT
                    !.xPos = IF \A m \in shown : k <= m THEN "0" ELSE @,
                    !.yPos = "none"]]

\* resolveTransforms for a run without children.
ResolveTransformsLeaf(resolved, run, collapsedChars, index) ==
    IF run.textPath
    THEN ResolveOnPath(resolved, collapsedChars, index, index + run.numChars)
    ELSE ResolveLocal(resolved, run.local, collapsedChars, index,
                      index + run.numChars, 0)

TransformRuns ==
    [numChars : 1..2, local : SeqsUpTo(LocalTransformations, MaxLocalTransforms),
     textPath : BOOLEAN]

\* relayout, step 3: resolvedTransforms has an entry for every character
\* and the first has xPos and yPos 0.
InitTransforms ==
    /\ pc = "resolveTransforms"
    /\ \E children \in SeqsUpTo(TransformRuns, 2) \ {<<>>} :
       \E local \in SeqsUpTo(LocalTransformations, MaxLocalTransforms) :
          LET n == SumSeq([k \in DOMAIN children |-> children[k].numChars])
          IN  /\ n <= MaxTransformChars
              /\ \E collapsedChars \in [0..(n - 1) -> BOOLEAN] :
                    input = [root |-> [local |-> local, numChars |-> n],
                             children |-> children,
                             collapsedChars |-> collapsedChars]
    /\ result = [k \in 0..(input.root.numChars - 1) |->
                    IF k = 0
                    THEN [CharTransformation EXCEPT !.xPos = "0", !.yPos = "0"]
                    ELSE CharTransformation]
    /\ lineBoxes = <<>>
    /\ eng = [entered |-> FALSE, child |-> 0, currentIndex |-> 0]
    /\ ret = "none"

\* The root run up to its loop over the children.
ResolveTransformsRoot ==
    /\ pc = "resolveTransforms"
    /\ ~eng.entered
    /\ result' = ResolveLocal(result, input.root.local, input.collapsedChars,
                              0, input.root.numChars, 0)
    /\ eng' = [eng EXCEPT !.entered = TRUE]
    /\ UNCHANGED <<pc, input, lineBoxes, ret>>

\* The recursive call for the next child.
ResolveTransformsChild ==
    /\ pc = "resolveTransforms"
    /\ eng.entered
    /\ eng.child < Len(input.children)
    /\ result' = ResolveTransformsLeaf(result, input.children[eng.child + 1],
                                       input.collapsedChars, eng.currentIndex)
    /\ eng' = [eng EXCEPT !.child = @ + 1,
                          !.currentIndex = @ + input.children[eng.child + 1].numChars]
    /\ UNCHANGED <<pc, input, lineBoxes, ret>>

\* The root run after its children.
ResolveTransformsReturn ==
    /\ pc = "resolveTransforms"
    /\ eng.entered
    /\ eng.child = Len(input.children)
    /\ eng' = [eng EXCEPT !.currentIndex = input.root.numChars]
    /\ pc' = "returned"
    /\ UNCHANGED <<input, result, lineBoxes, ret>>

NextTransforms ==
    ResolveTransformsRoot \/ ResolveTransformsChild \/ ResolveTransformsReturn

SpecTransforms == InitTransforms /\ [][NextTransforms]_vars

\* The child run that holds character k and the index of its first character.
RunOf(k) ==
    CHOOSE r \in DOMAIN input.children :
        LET from == SumSeq([m \in 1..(r - 1) |-> input.children[m].numChars])
        IN  from <= k /\ k < from + input.children[r].numChars
RunStart(r) == SumSeq([m \in 1..(r - 1) |-> input.children[m].numChars])

\* The entry of the array local that belongs to character k of a run that
\* starts at index: collapsed characters use no entry.
EntryFor(local, index, k) ==
    LET i == Cardinality({m \in index..(k - 1) : ~input.collapsedChars[m]})
    IN  IF i < Len(local) THEN local[i + 1] ELSE CharTransformation

\* The rotation given explicitly for character k: by its run, else by the
\* array of the root.
ExplicitRotate(k) ==
    LET own == EntryFor(input.children[RunOf(k)].local, RunStart(RunOf(k)), k).rotate
    IN  IF own # "none" THEN own
        ELSE EntryFor(input.root.local, 0, k).rotate

OffPath(k) == ~input.children[RunOf(k)].textPath

\* C21 as stated: after resolveTransforms a character that is not collapsed
\* has its explicit rotation if one was given by its run or by the array of
\* an ancestor, and the rotation of its predecessor if none was; a collapsed
\* character has no transformation.  Stated for the runs off a text path.
C21_AsStated ==
    pc = "returned" =>
        \A k \in DOMAIN result :
            IF input.collapsedChars[k]
            THEN k > 0 => result[k] = CharTransformation
            ELSE OffPath(k) =>
                    IF ExplicitRotate(k) # "none"
                    THEN result[k].rotate = ExplicitRotate(k)
                    ELSE k > 0 => result[k].rotate = result[k - 1].rotate

\* The rotation a run gives a character of its own is the character's
\* rotation, and a collapsed character has no transformation.
C21_OwnRotateKept ==
    pc = "returned" =>
        \A k \in DOMAIN result :
            IF input.collapsedChars[k]
            THEN k > 0 => result[k] = CharTransformation
            ELSE LET own == EntryFor(input.children[RunOf(k)].local,
                                     RunStart(RunOf(k)), k).rotate
                 IN  (OffPath(k) /\ own # "none") => result[k].rotate = own

----------------------------------------------------------------------------
(* computeTextDecorations and applyTextPath for a root run with one child  *)
(* on a text path that has a text-decoration.  The path is straight along  *)
(* the inline axis; its shape has an outline, a transformation that scales *)
(* it, and one or two subpaths.                                            *)

MaxDecorationChars == 2

PathShapes ==
    [outlineLength : {2 * h : h \in 1..MaxPathLength}, scale : 1..2,
     isClosedSubpath0 : BOOLEAN, subpathCount : 1..2]

\* textOnPathInfo(): startOffset as a percentage or as a length.
TextOnPathInfos ==
    [startOffset : {0, 50}, startOffsetIsPercentage : {TRUE}]
        \cup [startOffset : {0, 1}, startOffsetIsPercentage : {FALSE}]

\* 0.01 * startOffset of length.
StartOffset(info, length) ==
    IF info.startOffsetIsPercentage THEN (length * info.startOffset) \div 100
    ELSE info.startOffset

\* What computeTextDecorations hands to characterResultOnPath.
DecorationCall(shape, info) ==
    [length |-> shape.outlineLength,
     offset |-> StartOffset(info, shape.outlineLength),
     isClosed |-> shape.isClosedSubpath0]

\* What applyTextPath hands to characterResultOnPath: the outline is mapped
\* by the shape's transformation first.
TextPathCall(shape, info) ==
    [length |-> shape.outlineLength * shape.scale,
     offset |-> StartOffset(info, shape.outlineLength * shape.scale),
     isClosed |-> shape.isClosedSubpath0 /\ shape.subpathCount = 1]

\* The text after applyAnchoring: glyphs 1 px wide next to each other.
InitDecorations ==
    /\ pc = "computeTextDecorations"
    /\ \E shape \in PathShapes, info \in TextOnPathInfos,
          numChars \in 1..MaxDecorationChars, pos \in -MaxPathPos..MaxPathPos,
          anchor \in TextAnchors, direction \in Directions :
          /\ input = [shape |-> shape, info |-> info, numChars |-> numChars]
          /\ result = [k \in 0..(numChars - 1) |->
                          [CharacterResult EXCEPT !.finalPosition = pos + 2 * k,
                                                  !.cssPosition = pos + 2 * k,
                                                  !.advance = 2,
                                                  !.visualIndex = k,
                                                  !.anchored_chunk = (k = 0),
                                                  !.anchor = anchor,
                                                  !.direction = direction]]
    /\ lineBoxes = <<>>
    /\ eng = [decorationCall |-> <<>>, decorated |-> {}, textPathCall |-> <<>>]
    /\ ret = "none"

\* computeTextDecorations for the child: every character is put on the path
\* in a copy, and the hidden ones are left out of the decoration rects.
ComputeTextDecorations ==
    /\ pc = "computeTextDecorations"
    /\ LET c == DecorationCall(input.shape, input.info)
           onPath == [k \in DOMAIN result |->
                         CharacterResultOnPath(result[k], c.length, c.offset,
                                               c.isClosed).cr]
       IN  eng' = [eng EXCEPT
                     !.decorationCall = c,
                     !.decorated = {k \in DOMAIN result :
                                       ~(onPath[k].hidden \/ ~onPath[k].addressable)}]
    /\ pc' = "applyTextPath"
    /\ UNCHANGED <<input, result, lineBoxes, ret>>

\* applyTextPath for the child: a character that is not hidden is put with
\* its middle at mid.
ApplyTextPath ==
    /\ pc = "applyTextPath"
    /\ LET c == TextPathCall(input.shape, input.info)
       IN  /\ result' = [k \in DOMAIN result |->
                            IF result[k].middle THEN result[k]
                            ELSE LET o == CharacterResultOnPath(result[k], c.length,
                                                                c.offset, c.isClosed)
                                 IN  IF o.cr.hidden THEN o.cr
                                     ELSE [o.cr EXCEPT !.finalPosition =
                                               o.mid - (o.cr.advance \div 2)]]
           /\ eng' = [eng EXCEPT !.textPathCall = c]
    /\ pc' = "returned"
    /\ UNCHANGED <<input, lineBoxes, ret>>

NextDecorations == ComputeTextDecorations \/ ApplyTextPath

SpecDecorations == InitDecorations /\ [][NextDecorations]_vars

\* C22 as stated: computeTextDecorations and applyTextPath call
\* characterResultOnPath with the same path length, offset and closed-path
\* flag, and a character is left out of the decoration exactly when
\* applyTextPath marks it hidden.
C22_AsStated ==
    pc = "returned" =>
        /\ eng.decorationCall = eng.textPathCall
        /\ \A k \in DOMAIN result : (k \notin eng.decorated) <=> result[k].hidden

\* The same for a path shape whose transformation keeps lengths and which
\* has a single subpath.
C22_SameForPlainPath ==
    (pc = "returned" /\ input.shape.scale = 1 /\ input.shape.subpathCount = 1)
        => /\ eng.decorationCall = eng.textPathCall
           /\ \A k \in DOMAIN result : (k \notin eng.decorated) <=> result[k].hidden

----------------------------------------------------------------------------
(* KisPlaybackEngineQT with two canvases.  eng holds the engine, its       *)
(* driver and FrameMeasure, and what the engine sees of the canvases:      *)
(* canvas 0 is "no canvas".  input holds the framerate of the images.      *)

Canvases == 1..2
MaxFrame == 1
FrameStatsWindow == 2
PlaybackStates == {"STOPPED", "PAUSED", "PLAYING"}
PlaybackSpeeds == 1..2

\* LoopDrivenPlayback as constructed: the timer is not active and nothing is
\* connected to throttledShowFrame.
LoopDrivenPlayback ==
    [driver |-> TRUE, timerActive |-> FALSE, connected |-> FALSE,
     m_speed |-> 1, m_fps |-> 24, m_dropFrames |-> TRUE]

\* driver.reset()
NoDriver == [LoopDrivenPlayback EXCEPT !.driver = FALSE]

\* FrameMeasure as constructed, and measure.reset().
FrameMeasure == [measure |-> TRUE, waitingForFrame |-> FALSE, samples |-> 0]
NoMeasure == [FrameMeasure EXCEPT !.measure = FALSE]

\* LoopDrivenPlayback::setPlaybackState
SetPlaybackState(d, state) == [d EXCEPT !.timerActive = (state = "PLAYING")]

\* recreateDriver
RecreateDriver(activeCanvas) ==
    IF activeCanvas = 0 THEN NoDriver ELSE LoopDrivenPlayback

\* What throttledDriverCallback leaves in waitingForFrame after a request.
WaitingAfterDisplayFrameDropping(dropFrames, neededRefresh, answered) ==
    dropFrames /\ neededRefresh /\ ~answered

WaitingAfterDisplayFrame(dropFrames, neededRefresh, answered) ==
    ~dropFrames /\ neededRefresh /\ ~answered

InitPlayback ==
    /\ pc = "idle"
    /\ input = [framerate |-> <<24, 12>>]
    /\ result = <<>>
    /\ lineBoxes = <<>>
    /\ \E mode \in BOOLEAN :
          eng = [activeCanvas |-> 0,
                 dropFramesMode |-> mode,
                 d |-> NoDriver,
                 m |-> NoMeasure,
                 playbackState |-> [c \in Canvases |-> "STOPPED"],
                 playbackSpeed |-> [c \in Canvases |-> 1],
                 activeFrame |-> [c \in Canvases |-> 0],
                 pending |-> [c \in Canvases |-> FALSE]]
    /\ ret = "none"

\* setCanvas(canvas) for a canvas that is not the active one: the old
\* connections go, StopAndResume stops the old driver, the driver is
\* recreated, configured and connected, and ~StopAndResume hands it the
\* playback state of the new canvas.
SetCanvas ==
    /\ pc = "idle"
    /\ \E canvas \in Canvases :
          /\ canvas # eng.activeCanvas
          /\ eng' = [eng EXCEPT
                       !.activeCanvas = canvas,
                       !.d = SetPlaybackState(
                                [RecreateDriver(canvas) EXCEPT
                                    !.m_speed = eng.playbackSpeed[canvas],
                                    !.m_fps = input.framerate[canvas],
                                    !.connected = TRUE],
                                eng.playbackState[canvas])]
    /\ UNCHANGED <<pc, input, result, lineBoxes, ret>>

\* unsetCanvas(): setCanvas(nullptr).
UnsetCanvas ==
    /\ pc = "idle"
    /\ eng.activeCanvas # 0
    /\ eng' = [eng EXCEPT !.activeCanvas = 0, !.d = RecreateDriver(0)]
    /\ UNCHANGED <<pc, input, result, lineBoxes, ret>>

\* The animation state of the active canvas changes its playback state and
\* emits sigPlaybackStateChanged.
SigPlaybackStateChanged ==
    /\ pc = "idle"
    /\ eng.activeCanvas # 0
    /\ \E state \in PlaybackStates \ {eng.playbackState[eng.activeCanvas]} :
          eng' = [eng EXCEPT
                    !.playbackState[eng.activeCanvas] = state,
                    !.m = IF ~eng.d.driver THEN @
                          ELSE IF state = "PLAYING" THEN FrameMeasure
                          ELSE NoMeasure,
                    !.d = IF ~eng.d.driver THEN @ ELSE SetPlaybackState(@, state)]
    /\ UNCHANGED <<pc, input, result, lineBoxes, ret>>

\* sigPlaybackMediaChanged of the active canvas.
SigPlaybackMediaChanged ==
    /\ pc = "idle"
    /\ eng.activeCanvas # 0
    /\ eng' = [eng EXCEPT !.d = RecreateDriver(eng.activeCanvas)]
    /\ UNCHANGED <<pc, input, result, lineBoxes, ret>>

\* sigPlaybackSpeedChanged of the active canvas.
SigPlaybackSpeedChanged ==
    /\ pc = "idle"
    /\ eng.activeCanvas # 0
    /\ \E value \in PlaybackSpeeds \ {eng.playbackSpeed[eng.activeCanvas]} :
          eng' = [eng EXCEPT
                    !.playbackSpeed[eng.activeCanvas] = value,
                    !.d.m_speed = IF eng.d.driver THEN value ELSE @]
    /\ UNCHANGED <<pc, input, result, lineBoxes, ret>>

\* setDropFramesMode(value): without a driver the safe assert returns after
\* the base class has taken the value.
SetDropFramesMode ==
    /\ pc = "idle"
    /\ \E value \in BOOLEAN :
          /\ value # eng.dropFramesMode
          /\ eng' = [eng EXCEPT
                       !.dropFramesMode = value,
                       !.d.m_dropFrames = IF eng.d.driver THEN value ELSE @]
    /\ UNCHANGED <<pc, input, result, lineBoxes, ret>>

\* The timer of the driver fires and throttledShowFrame reaches
\* throttledDriverCallback.  displayFrame tells whether a refresh was needed;
\* the proxy may answer before displayFrame returns.
ThrottledDriverCallback ==
    /\ pc = "idle"
    /\ eng.d.driver /\ eng.d.timerActive /\ eng.d.connected
    /\ IF ~eng.m.measure
       THEN pc' = "crashed" /\ UNCHANGED eng
       ELSE /\ pc' = pc
            /\ IF eng.m.waitingForFrame
               THEN UNCHANGED eng
               ELSE \E targetFrame \in 0..MaxFrame, neededRefresh \in BOOLEAN,
                       answered \in BOOLEAN, shown \in 0..MaxFrame :
                      LET c == eng.activeCanvas
                          counted == [eng EXCEPT
                                        !.m.samples = Min(@ + 1, FrameStatsWindow)]
                      IN  /\ answered => neededRefresh
                          /\ shown \in {eng.activeFrame[c], targetFrame}
                          /\ eng' =
                               IF targetFrame = eng.activeFrame[c] THEN counted
                               ELSE [counted EXCEPT
                                       !.m.waitingForFrame =
                                           WaitingAfterDisplayFrame(
                                               eng.d.m_dropFrames, neededRefresh,
                                               answered),
                                       !.pending[c] = @ \/ (neededRefresh /\ ~answered),
                                       !.activeFrame[c] =
                                           IF neededRefresh /\ ~answered THEN @
                                           ELSE shown]
    /\ UNCHANGED <<input, result, lineBoxes, ret>>

\* The display proxy of a canvas answers a displayFrame with
\* sigFrameDisplayRefreshed or sigFrameRefreshSkipped; the engine hears the
\* proxy of the active canvas only.
SigFrameDisplayed ==
    /\ pc = "idle"
    /\ \E c \in Canvases, shown \in 0..MaxFrame :
          /\ eng.pending[c]
          /\ eng' = [eng EXCEPT
                       !.pending[c] = FALSE,
                       !.activeFrame[c] = shown,
                       !.m.waitingForFrame = IF c = eng.activeCanvas THEN FALSE ELSE @]
    /\ UNCHANGED <<pc, input, result, lineBoxes, ret>>

NextPlayback ==
    \/ SetCanvas
    \/ UnsetCanvas
    \/ SigPlaybackStateChanged
    \/ SigPlaybackMediaChanged
    \/ SigPlaybackSpeedChanged
    \/ SetDropFramesMode
    \/ ThrottledDriverCallback
    \/ SigFrameDisplayed

SpecPlayback == InitPlayback /\ [][NextPlayback]_vars

\* C23: a driver whose timer runs has a FrameMeasure, and the assertion of
\* throttledDriverCallback never fails.
C23_AsStated ==
    /\ pc # "crashed"
    /\ (eng.d.driver /\ eng.d.timerActive) => eng.m.measure

\* The driver's timer runs and its ticks reach throttledDriverCallback.
Advancing == eng.d.driver /\ eng.d.timerActive /\ eng.d.connected

\* C24: while the callback holds back for a frame, an answer of the proxy
\* that the engine hears is still to come, so that playback advances again.
C24_AsStated ==
    (pc = "idle" /\ Advancing /\ eng.m.measure /\ eng.m.waitingForFrame)
        => eng.pending[eng.activeCanvas]

\* A callback that finds waitingForFrame set requests no frame and records
\* nothing, and the proxy's answer clears the flag.
C24_HeldBackWhileWaiting ==
    [][/\ (ThrottledDriverCallback /\ eng.m.measure /\ eng.m.waitingForFrame)
             => UNCHANGED eng
       /\ (/\ eng.activeCanvas # 0
           /\ eng'.activeCanvas = eng.activeCanvas
           /\ eng.pending[eng.activeCanvas]
           /\ ~eng'.pending[eng.activeCanvas]) => ~eng'.m.waitingForFrame]_vars

\* waitingForFrame becomes set in this step.
StartsWaiting ==
    /\ eng'.m.measure /\ eng'.m.waitingForFrame
    /\ ~(eng.m.measure /\ eng.m.waitingForFrame)

Configured ==
    /\ eng.d.timerActive = (eng.playbackState[eng.activeCanvas] = "PLAYING")
    /\ eng.d.m_speed = eng.playbackSpeed[eng.activeCanvas]
    /\ eng.d.m_fps = input.framerate[eng.activeCanvas]

\* C26: a driver that exists is connected to throttledDriverCallback and
\* configured.
C26_AsStated ==
    (pc = "idle" /\ eng.d.driver) => (eng.d.connected /\ Configured)

\* A driver that is connected is configured.
C26_ConfiguredWhenConnected ==
    (pc = "idle" /\ eng.d.driver /\ eng.d.connected) => Configured

----------------------------------------------------------------------------
(* KisWidgetWithIdleTask.  eng holds m_canvas (0 is the null pointer), the *)
(* idle-task guard and the widget's visibility as Qt keeps it: isVisible   *)
(* is the widget's visible attribute, which show() sets before the show    *)
(* event is sent and hide() clears before the hide event is sent; the      *)
(* window system sends spontaneous hide and show events to a visible       *)
(* widget when its window is unmapped and mapped again, and these leave    *)
(* the attribute alone.  cachedState is the canvas whose data the idle     *)
(* task left in the widget's cache, which clearCachedState() empties.  ret *)
(* names the handler whose safe assert failed.                             *)

MaxCanvases == 10

\* KisIdleTasksManager::TaskGuard(): the invalid guard.
TaskGuard == [isValid |-> FALSE, triggered |-> FALSE]

\* registerIdleTask(m_canvas)
RegisterIdleTask == [isValid |-> TRUE, triggered |-> FALSE]

\* TaskGuard::trigger() on a guard that is valid.
Trigger(guard) == IF guard.isValid THEN [guard EXCEPT !.triggered = TRUE] ELSE guard

\* showEvent: yields the widget's fields and whether the safe assert held.
ShowEvent(w) ==
    [w EXCEPT !.m_idleTaskGuard = Trigger(IF w.m_canvas # 0 THEN RegisterIdleTask
                                          ELSE TaskGuard)]

\* hideEvent
HideEvent(w) == [w EXCEPT !.m_idleTaskGuard = TaskGuard, !.cachedState = 0]

\* The condition of the safe assert in hideEvent.
HideEventAssert(w, wasVisible) ==
    w.m_canvas = 0 \/ wasVisible = w.m_idleTaskGuard.isValid

InitWidget ==
    /\ pc = "idle"
    /\ input = <<>>
    /\ result = <<>>
    /\ lineBoxes = <<>>
    /\ eng = [m_canvas |-> 0, m_idleTaskGuard |-> TaskGuard, cachedState |-> 0,
              isVisible |-> FALSE, mapped |-> FALSE]
    /\ ret = "none"

\* setCanvas(canvas)
WidgetSetCanvas ==
    /\ \E canvas \in 0..MaxCanvases :
          eng' = [eng EXCEPT
                    !.m_canvas = canvas,
                    !.cachedState = 0,
                    !.m_idleTaskGuard =
                        IF canvas # 0 /\ eng.isVisible THEN RegisterIdleTask
                        ELSE IF eng.m_canvas # 0 THEN TaskGuard
                        ELSE @]
    /\ ret' = "none"
    /\ UNCHANGED <<pc, input, result, lineBoxes>>

\* show(): the widget becomes visible and gets its show event.
WidgetShow ==
    /\ ~eng.isVisible
    /\ eng' = ShowEvent([eng EXCEPT !.isVisible = TRUE, !.mapped = TRUE])
    /\ ret' = IF eng.m_idleTaskGuard.isValid THEN "showEvent" ELSE "none"
    /\ UNCHANGED <<pc, input, result, lineBoxes>>

\* hide(): the widget stops being visible and gets its hide event.
WidgetHide ==
    /\ eng.isVisible
    /\ eng' = HideEvent([eng EXCEPT !.isVisible = FALSE, !.mapped = FALSE])
    /\ ret' = IF HideEventAssert(eng, FALSE) THEN "none" ELSE "hideEvent"
    /\ UNCHANGED <<pc, input, result, lineBoxes>>

\* The window is minimized: a spontaneous hide event.
WidgetSpontaneousHide ==
    /\ eng.isVisible /\ eng.mapped
    /\ eng' = HideEvent([eng EXCEPT !.mapped = FALSE])
    /\ ret' = IF HideEventAssert(eng, TRUE) THEN "none" ELSE "hideEvent"
    /\ UNCHANGED <<pc, input, result, lineBoxes>>

\* The window is restored: a spontaneous show event.
WidgetSpontaneousShow ==
    /\ eng.isVisible /\ ~eng.mapped
    /\ eng' = ShowEvent([eng EXCEPT !.mapped = TRUE])
    /\ ret' = IF eng.m_idleTaskGuard.isValid THEN "showEvent" ELSE "none"
    /\ UNCHANGED <<pc, input, result, lineBoxes>>

\* triggerCacheUpdate()
TriggerCacheUpdate ==
    /\ eng' = [eng EXCEPT !.m_idleTaskGuard = Trigger(@)]
    /\ ret' = "none"
    /\ UNCHANGED <<pc, input, result, lineBoxes>>

\* The idle task of a triggered guard runs and fills the cache.
IdleTaskRuns ==
    /\ eng.m_idleTaskGuard.isValid /\ eng.m_idleTaskGuard.triggered
    /\ eng' = [eng EXCEPT !.m_idleTaskGuard.triggered = FALSE,
                          !.cachedState = eng.m_canvas]
    /\ ret' = "none"
    /\ UNCHANGED <<pc, input, result, lineBoxes>>

NextWidget ==
    \/ IdleTaskRuns
    \/ WidgetSetCanvas
    \/ WidgetShow
    \/ WidgetHide
    \/ WidgetSpontaneousHide
    \/ WidgetSpontaneousShow
    \/ TriggerCacheUpdate

SpecWidget == InitWidget /\ [][NextWidget]_vars

\* C27 as stated: the guard is valid exactly when a canvas is set and the
\* widget is visible, and no safe assert of showEvent or hideEvent fails.
C27_AsStated ==
    /\ eng.m_idleTaskGuard.isValid <=> (eng.m_canvas # 0 /\ eng.isVisible)
    /\ ret = "none"

\* A valid guard has a canvas and a visible widget, and the guard is invalid
\* after hideEvent.
C27_ValidGuardHasCanvas ==
    /\ eng.m_idleTaskGuard.isValid => (eng.m_canvas # 0 /\ eng.isVisible)
    /\ [][(WidgetHide \/ WidgetSpontaneousHide) => ~eng'.m_idleTaskGuard.isValid]_vars

----------------------------------------------------------------------------
(* StoryboardDockerDock with two canvases.  eng holds the docker: the      *)
(* checked mode and view buttons and which buttons are enabled, m_canvas   *)
(* (0 is the null pointer), the connections setCanvas made, the lists of   *)
(* the two models and of the documents, and the canvases already closed.   *)
(* A list is 0 when empty, else the number of its version.                 *)

StoryboardCanvases == 1..2
MaxListVersion == 1
Modes == {"Column", "Row", "Grid"}
Views == {"All", "ThumbnailsOnly", "CommentsOnly"}

\* A connection from an object of canvas c, or of the docker for c = 0.
Connection(c, signal, slot) == [canvas |-> c, signal |-> signal, slot |-> slot]

\* The connect calls of setCanvas.
ConnectedBySetCanvas(c) ==
    { Connection(0, "StoryboardModel::sigStoryboardItemListChanged", "slotUpdateDocumentList"),
      Connection(0, "CommentModel::sigCommentListChanged", "slotUpdateDocumentList"),
      Connection(c, "KisDocument::sigStoryboardItemListChanged", "slotUpdateStoryboardModelList"),
      Connection(c, "KisDocument::sigStoryboardCommentListChanged", "slotUpdateCommentModelList"),
      Connection(c, "KisImage::sigAboutToBeDeleted", "notifyImageDeleted") }

\* The disconnect calls of setCanvas.
DisconnectedBySetCanvas(c) ==
    { Connection(0, "StoryboardModel::sigStoryboardItemListChanged", "slotUpdateDocumentList"),
      Connection(0, "CommentModel::sigCommentListChanged", "slotUpdateDocumentList"),
      Connection(c, "KisDocument::sigStoryboardItemListChanged", "slotUpdateStoryboardModelList"),
      Connection(c, "KisDocument::sigStoryboardItemListChanged", "slotUpdateCommentModelList") }

\* A mode that leaves the CommentsOnly button enabled also for Row.
SlotModeChangedAllEnabled(dock, mode) ==
    [dock EXCEPT !.mode = mode,
                 !.flow = IF mode = "Row" THEN "TopToBottom" ELSE "LeftToRight",
                 !.wrapping = (mode = "Grid"),
                 !.itemOrientation = IF mode = "Row" THEN "Horizontal" ELSE "Vertical",
                 !.commentsOnlyEnabled = TRUE]

\* slotModeChanged for the button with id mode.
SlotModeChanged(dock, mode) ==
    [dock EXCEPT !.mode = mode,
                 !.flow = IF mode = "Row" THEN "TopToBottom" ELSE "LeftToRight",
                 !.wrapping = (mode = "Grid"),
                 !.itemOrientation = IF mode = "Row" THEN "Horizontal" ELSE "Vertical",
                 !.commentsOnlyEnabled = (mode # "Row")]

\* slotViewChanged for the button with id view.
SlotViewChanged(dock, view) ==
    [dock EXCEPT !.view = view,
                 !.commentVisibility = (view # "ThumbnailsOnly"),
                 !.thumbnailVisibility = (view # "CommentsOnly"),
                 !.rowEnabled = (view # "CommentsOnly")]

\* slotUpdateDocumentList
SlotUpdateDocumentList(dock) ==
    [dock EXCEPT !.documentItems[dock.m_canvas] = dock.modelItems,
                 !.documentComments[dock.m_canvas] = dock.modelComments]

\* The slots of the connections of canvas c for signal, run one after the
\* other by a docker whose m_canvas is not null.
SlotsOf(dock, c, signal) ==
    LET slots == {k.slot : k \in {x \in dock.connections :
                                       x.canvas = c /\ x.signal = signal}}
        a == IF "slotUpdateStoryboardModelList" \in slots
             THEN [dock EXCEPT !.modelItems = dock.documentItems[dock.m_canvas]]
             ELSE dock
        b == IF "slotUpdateCommentModelList" \in slots
             THEN [a EXCEPT !.modelComments = a.documentComments[a.m_canvas]]
             ELSE a
    IN  IF "slotUpdateDocumentList" \in slots THEN SlotUpdateDocumentList(b) ELSE b

\* The constructor: the buttons are clicked into Row mode and All view.
InitStoryboard ==
    /\ pc = "idle"
    /\ input = <<>>
    /\ result = <<>>
    /\ lineBoxes = <<>>
    /\ eng = SlotViewChanged(
                SlotModeChanged(
                   [mode |-> "Row", view |-> "All",
                    commentsOnlyEnabled |-> TRUE, rowEnabled |-> TRUE,
                    flow |-> "TopToBottom", wrapping |-> FALSE,
                    itemOrientation |-> "Horizontal",
                    commentVisibility |-> TRUE, thumbnailVisibility |-> TRUE,
                    m_canvas |-> 0, connections |-> {},
                    modelItems |-> 0, modelComments |-> 0, modelImage |-> 0,
                    documentItems |-> [c \in StoryboardCanvases |-> 0],
                    documentComments |-> [c \in StoryboardCanvases |-> 0],
                    closed |-> {}],
                   "Row"),
                "All")
    /\ ret = "none"

\* A click on a mode button that is enabled.
ClickModeButton ==
    /\ pc = "idle"
    /\ \E mode \in Modes :
          /\ mode = "Row" => eng.rowEnabled
          /\ eng' = SlotModeChanged(eng, mode)
    /\ UNCHANGED <<pc, input, result, lineBoxes, ret>>

\* A click on a view button that is enabled.
ClickViewButton ==
    /\ pc = "idle"
    /\ \E view \in Views :
          /\ view = "CommentsOnly" => eng.commentsOnlyEnabled
          /\ eng' = SlotViewChanged(eng, view)
    /\ UNCHANGED <<pc, input, result, lineBoxes, ret>>

\* setCanvas(canvas) for a canvas with an image, and unsetCanvas().
StoryboardSetCanvas ==
    /\ pc = "idle"
    /\ \E canvas \in (StoryboardCanvases \ eng.closed) \cup {0} :
          /\ canvas # eng.m_canvas
          /\ LET left == IF eng.m_canvas = 0 THEN eng
                         ELSE [SlotUpdateDocumentList(eng) EXCEPT
                                 !.connections = @ \ DisconnectedBySetCanvas(eng.m_canvas),
                                 !.modelItems = 0,
                                 !.modelComments = 0]
             IN  eng' = IF canvas = 0 THEN [left EXCEPT !.m_canvas = 0]
                        ELSE [left EXCEPT
                                !.m_canvas = canvas,
                                !.modelItems = left.documentItems[canvas],
                                !.modelComments = left.documentComments[canvas],
                                !.connections = @ \cup ConnectedBySetCanvas(canvas),
                                !.modelImage = canvas]
    /\ UNCHANGED <<pc, input, result, lineBoxes, ret>>

\* The document of a canvas changes one of its lists and emits the signal
\* of that list.  A slot that runs with m_canvas null dereferences it.
DocumentListChanged ==
    /\ pc = "idle"
    /\ \E c \in StoryboardCanvases \ eng.closed, version \in 1..MaxListVersion,
          items \in BOOLEAN :
          LET signal == IF items THEN "KisDocument::sigStoryboardItemListChanged"
                        ELSE "KisDocument::sigStoryboardCommentListChanged"
              changed == IF items THEN [eng EXCEPT !.documentItems[c] = version]
                         ELSE [eng EXCEPT !.documentComments[c] = version]
              heard == \E k \in eng.connections : k.canvas = c /\ k.signal = signal
          IN  IF heard /\ eng.m_canvas = 0
              THEN pc' = "crashed" /\ eng' = changed
              ELSE pc' = pc /\ eng' = SlotsOf(changed, c, signal)
    /\ UNCHANGED <<input, result, lineBoxes, ret>>

\* The user edits the storyboard or the comment fields in the docker, and
\* the model emits its signal.
ModelListChanged ==
    /\ pc = "idle"
    /\ eng.m_canvas # 0
    /\ \E version \in 0..MaxListVersion, items \in BOOLEAN :
          LET signal == IF items THEN "StoryboardModel::sigStoryboardItemListChanged"
                        ELSE "CommentModel::sigCommentListChanged"
              changed == IF items THEN [eng EXCEPT !.modelItems = version]
                         ELSE [eng EXCEPT !.modelComments = version]
          IN  eng' = SlotsOf(changed, 0, signal)
    /\ UNCHANGED <<pc, input, result, lineBoxes, ret>>

\* The image of a canvas that is not the docker's is deleted: it emits
\* sigAboutToBeDeleted, and the connections of the deleted objects go.
ImageAboutToBeDeleted ==
    /\ pc = "idle"
    /\ \E c \in StoryboardCanvases \ eng.closed :
          /\ c # eng.m_canvas
          /\ eng' = [eng EXCEPT
                       !.closed = @ \cup {c},
                       !.connections = {k \in @ : k.canvas # c},
                       !.modelImage =
                           IF /\ Connection(c, "KisImage::sigAboutToBeDeleted",
                                            "notifyImageDeleted") \in eng.connections
                              /\ eng.m_canvas = 0
                           THEN 0 ELSE @]
    /\ UNCHANGED <<pc, input, result, lineBoxes, ret>>

NextStoryboard ==
    \/ ClickModeButton
    \/ ClickViewButton
    \/ StoryboardSetCanvas
    \/ DocumentListChanged
    \/ ModelListChanged
    \/ ImageAboutToBeDeleted

SpecStoryboard == InitStoryboard /\ [][NextStoryboard]_vars

\* C28: the docker is never in Row mode with the CommentsOnly view; the
\* CommentsOnly button is disabled exactly in Row mode and the Row button
\* exactly in the CommentsOnly view.
C28_NeverRowWithCommentsOnly ==
    /\ ~(eng.mode = "Row" /\ eng.view = "CommentsOnly")
    /\ eng.commentsOnlyEnabled <=> eng.mode # "Row"
    /\ eng.rowEnabled <=> eng.view # "CommentsOnly"

C28_Witness ==
    /\ eng.view = "CommentsOnly" /\ eng.mode = "Grid"
    /\ ~eng.rowEnabled /\ eng.commentsOnlyEnabled

\* C29: every connection from a document or an image is one of the
\* docker's canvas, and no slot ran with m_canvas null.
C29_AsStated ==
    /\ pc # "crashed"
    /\ \A k \in eng.connections : k.canvas # 0 => k.canvas = eng.m_canvas

\* The connections of the storyboard list of a document are those of the
\* docker's canvas.
C29_ItemListDisconnected ==
    \A k \in eng.connections :
        k.signal = "KisDocument::sigStoryboardItemListChanged"
            => k.canvas = eng.m_canvas

----------------------------------------------------------------------------
(* KisKXMLGUIBuilder on one parent widget.  eng holds the parent: its      *)
(* class, the list of its actions (each with an id and a kind), whether    *)
(* tear-off is enabled, and the id of the next action created.  ret holds  *)
(* the last call: its name, its index, the actions before it and the id    *)
(* of the action it created.                                               *)

MaxBuilderActions == 4
ParentClasses == {"QMenu", "QMenuBar", "KisToolBar", "QWidget"}
CustomTags == {"separator", "tearoffhandle", "title"}
BuilderIndices == -1..MaxBuilderActions

NoCall == [op |-> "none", index |-> -1, old |-> <<>>, act |-> 0]

\* QList::value(i): the element, or a null pointer (0) out of range.
Value(actions, i) == IF i >= 0 /\ i < Len(actions) THEN actions[i + 1].id ELSE 0

\* QWidget::insertAction(before, action) for an action not yet in the list:
\* before the action before, appended when before is null.
InsertAction(actions, before, action) ==
    IF \E i \in 1..Len(actions) : actions[i].id = before
    THEN LET pos == CHOOSE i \in 1..Len(actions) : actions[i].id = before
         IN  SubSeq(actions, 1, pos - 1) \o <<action>> \o SubSeq(actions, pos, Len(actions))
    ELSE Append(actions, action)

\* The action createCustomElement inserts before.
Before(actions, index) ==
    IF index > 0 /\ index < Len(actions) THEN actions[index + 1].id ELSE 0

\* The kind of the action createCustomElement makes for a tag on a parent.
CustomKind(parentClass, tagName) ==
    CASE tagName = "separator" /\ parentClass # "QWidget" -> "separator"
      [] tagName = "title" /\ parentClass = "QMenu" -> "section"
      [] OTHER -> "blank"

InitBuilder ==
    /\ pc = "idle"
    /\ input \in [parentClass : ParentClasses]
    /\ result = <<>>
    /\ lineBoxes = <<>>
    /\ eng = [actions |-> <<>>, tearOffEnabled |-> FALSE, nextId |-> 1]
    /\ ret = NoCall

\* createCustomElement(parent, index, element)
CreateCustomElement ==
    /\ pc = "idle"
    /\ eng.nextId <= MaxBuilderActions
    /\ \E index \in BuilderIndices, tagName \in CustomTags :
          /\ tagName = "tearoffhandle" => input.parentClass = "QMenu"
          /\ LET act == [id |-> eng.nextId,
                         kind |-> CustomKind(input.parentClass, tagName)]
             IN  /\ eng' = [eng EXCEPT
                              !.actions = InsertAction(@, Before(@, index), act),
                              !.tearOffEnabled = @ \/ tagName = "tearoffhandle",
                              !.nextId = @ + 1]
                 /\ ret' = [op |-> "createCustomElement", index |-> index,
                            old |-> eng.actions, act |-> act.id]
    /\ UNCHANGED <<pc, input, result, lineBoxes>>

\* createContainer(parent, index, element, containerAction) for a menu.
CreateContainer ==
    /\ pc = "idle"
    /\ eng.nextId <= MaxBuilderActions
    /\ \E index \in BuilderIndices :
          LET act == [id |-> eng.nextId, kind |-> "menu"]
          IN  /\ eng' = [eng EXCEPT
                           !.actions = IF index = -1 \/ index >= Len(@)
                                       THEN Append(@, act)
                                       ELSE InsertAction(@, Value(@, index), act),
                           !.nextId = @ + 1]
              /\ ret' = [op |-> "createContainer", index |-> index,
                         old |-> eng.actions, act |-> act.id]
    /\ UNCHANGED <<pc, input, result, lineBoxes>>

\* removeCustomElement(parent, action)
RemoveCustomElement ==
    /\ pc = "idle"
    /\ \E i \in 1..Len(eng.actions) :
          /\ eng.actions[i].kind # "menu"
          /\ eng' = [eng EXCEPT !.actions = SubSeq(@, 1, i - 1) \o SubSeq(@, i + 1, Len(@))]
          /\ ret' = [op |-> "removeCustomElement", index |-> i - 1,
                     old |-> eng.actions, act |-> eng.actions[i].id]
    /\ UNCHANGED <<pc, input, result, lineBoxes>>

NextBuilder ==
    \/ CreateCustomElement
    \/ CreateContainer
    \/ RemoveCustomElement

SpecBuilder == InitBuilder /\ [][NextBuilder]_vars

\* The ids of the actions of a list.
Ids(actions) == [i \in 1..Len(actions) |-> actions[i].id]

\* The last call left its action at position index, counted from 0, with
\* the actions it found in their order around it.
PlacedAt(index) ==
    Ids(eng.actions) = SubSeq(Ids(ret.old), 1, index) \o <<ret.act>>
                          \o SubSeq(Ids(ret.old), index + 1, Len(ret.old))

\* The last call placed its action by the index rule: before the action
\* at index for 0 <= index < count, appended for -1 and index >= count.
ByIndexRule ==
    IF ret.index >= 0 /\ ret.index < Len(ret.old)
    THEN PlacedAt(ret.index)
    ELSE PlacedAt(Len(ret.old))

\* C30: createCustomElement places the new action by the index rule, so
\* index 0 puts it first, as createContainer does for menus.
C30_AsStated ==
    ret.op \in {"createCustomElement", "createContainer"} => ByIndexRule

\* createCustomElement follows the index rule for every index but 0 on a
\* parent with actions, where it appends; createContainer follows it always.
C30_ZeroAppends ==
    /\ ret.op = "createContainer" => ByIndexRule
    /\ ret.op = "createCustomElement" =>
          IF ret.index = 0 THEN PlacedAt(Len(ret.old)) ELSE ByIndexRule

====
